---- MODULE Spec2Model ----
(***************************************************************************)
(* Matching-and-ranking engine of the CV search application: the exact     *)
(* matchers (KMP, Boyer-Moore, Aho-Corasick), the fuzzy matcher and the    *)
(* search orchestrator with its single-threaded and worker-pool paths.     *)
(*                                                                         *)
(* Strings are sequences of one-character strings.  Offsets are 0-based,   *)
(* as in the Python source; At(s, i) reads s[i].                           *)
(***************************************************************************)
EXTENDS Integers, Sequences, FiniteSets, TLC

VARIABLES
    \* ---- matcher harness: one text and one pattern, each matcher applied
    mtext, mpattern, mpc, kmpOut, bmOut, acOut, gsOut,
    \* ---- one call of SearchEngine.search
    corpus,          \* applicant_dicts, as _load_applicant_data returns them
    keywords,        \* keyword list as passed by the caller
    algorithm,       \* "KMP" | "BM" | "AC"
    max_results,
    use_multiprocessing,
    pc,              \* position of the call
    probe,           \* outcome of the probe task of _can_use_multiprocessing
    exactState,      \* per chunk: state of its exact-phase future
    fuzzyState,      \* per chunk: state of its fuzzy-phase future
    exact_results,   \* dict id -> result, in insertion order
    fuzzy_results,   \* dict id -> result, in insertion order
    fuzzyKeywords,   \* keywords_for_fuzzy of the parallel path
    poolError,       \* "none" | "exact" | "fuzzy": where the pool raised
    returned,        \* the record search returns
    loaded,          \* _load_applicant_data has been called
    failedDoc,       \* detail_id of the applicant whose matching raised, or 0
    \* ---- fuzzy harness: two strings, FuzzyMatcher applied to them
    fuzzS1, fuzzS2, fuzzPc,
    fuzzDistance,    \* _edit_distance(fuzzS1, fuzzS2)
    fuzzReverse,     \* _edit_distance(fuzzS2, fuzzS1)
    fuzzSimilarity,   \* similarity_ratio(fuzzS1, fuzzS2), times SimScale
    \* ---- threshold harness: calculate_dynamic_threshold applied to two terms
    thrTerm1, thrTerm2, thrPc, thrOut1, thrOut2,
    \* ---- chunking harness: the split of _multiprocessing_search applied to a corpus
    chkCorpus, chkCpu, chkPc, chkSize, chkChunks,
    \* ---- substring harness: substring_similarity and _sliding_window_similarity applied to a query and a text
    subQuery, subText, subPc, subOut, slideOut,
    \* ---- exact-phase harness: the exact matching of one document text for a keyword list
    exKeywords, exText, exPc,
    exAc, exKmp, exBm,   \* matches and total of the "AC", "KMP" and "BM" branch
    \* ---- combine harness: combine_and_rank_results applied to two result dicts
    cmbExact, cmbFuzzy,  \* exact_results and fuzzy_results as passed
    cmbPc,
    cmbExactAfter,       \* exact_results as the caller sees it after the call
    cmbFuzzyAfter,       \* fuzzy_results as the caller sees it after the call
    cmbOut               \* the list returned

vars == <<mtext, mpattern, mpc, kmpOut, bmOut, acOut, gsOut,
          corpus, keywords, algorithm, max_results, use_multiprocessing,
          pc, probe, exactState, fuzzyState, exact_results, fuzzy_results,
          fuzzyKeywords, poolError, returned, loaded, failedDoc,
          fuzzS1, fuzzS2, fuzzPc, fuzzDistance, fuzzReverse, fuzzSimilarity,
          thrTerm1, thrTerm2, thrPc, thrOut1, thrOut2,
          chkCorpus, chkCpu, chkPc, chkSize, chkChunks,
          subQuery, subText, subPc, subOut, slideOut,
          exKeywords, exText, exPc, exAc, exKmp, exBm,
          cmbExact, cmbFuzzy, cmbPc, cmbExactAfter, cmbFuzzyAfter, cmbOut>>

fuzzVars == <<fuzzS1, fuzzS2, fuzzPc, fuzzDistance, fuzzReverse, fuzzSimilarity>>
thrVars == <<thrTerm1, thrTerm2, thrPc, thrOut1, thrOut2>>
chkVars == <<chkCorpus, chkCpu, chkPc, chkSize, chkChunks>>
subVars == <<subQuery, subText, subPc, subOut, slideOut>>
exVars == <<exKeywords, exText, exPc, exAc, exKmp, exBm>>
cmbVars == <<cmbExact, cmbFuzzy, cmbPc, cmbExactAfter, cmbFuzzyAfter, cmbOut>>
helperVars == <<exVars, cmbVars>>
pureVars == <<thrVars, chkVars, subVars, helperVars>>
matchVars == <<mtext, mpattern, mpc, kmpOut, bmOut, acOut, gsOut>>
searchVars == <<corpus, keywords, algorithm, max_results, use_multiprocessing,
                pc, probe, exactState, fuzzyState, exact_results, fuzzy_results,
                fuzzyKeywords, poolError, returned, loaded, failedDoc>>

(***************************************************************************)
(* Bounds of the model                                                     *)
(***************************************************************************)
MaxTextLen == 4
MaxPatLen == 3
NDocs == 11
MaxResults == 2
CpuCount == 2
MaxTaskFailures == 1
MaxWordLen == 3
MaxTermLen == 14
MaxTotal == 30
MaxCpus == 9
MaxKeywords == 2
MaxIds == 2
MaxTypos == 2

(***************************************************************************)
(* Strings                                                                 *)
(***************************************************************************)
At(s, i) == s[i + 1]

Range(s) == {s[k] : k \in 1..Len(s)}

Range2(f) == {f[x] : x \in DOMAIN f}

Max2(a, b) == IF a >= b THEN a ELSE b

Min2(a, b) == IF a <= b THEN a ELSE b

SetMax(S) == CHOOSE x \in S : \A y \in S : y <= x

\* str.lower() on one character
LowerChar(c) ==
    CASE c = "A" -> "a"
      [] c = "B" -> "b"
      [] c = "C" -> "c"
      [] OTHER -> c

\* str.lower()
Lower(s) == [k \in 1..Len(s) |-> LowerChar(s[k])]

\* s[i:j] of Python, 0-based, j exclusive
Slice(s, i, j) == IF j <= i THEN <<>> ELSE SubSeq(s, i + 1, Min2(j, Len(s)))

RECURSIVE StringsUpTo(_, _)
StringsUpTo(A, n) ==
    IF n = 0 THEN {<<>>}
    ELSE LET S == StringsUpTo(A, n - 1)
         IN  S \cup {Append(s, c) : s \in {x \in S : Len(x) = n - 1}, c \in A}

(***************************************************************************)
(* algorithms/kmp.py                                                       *)
(***************************************************************************)
RECURSIVE KmpFailureWhile(_, _, _, _)
KmpFailureWhile(pattern, failure, j, i) ==
    IF j > 0 /\ At(pattern, i) # At(pattern, j)
    THEN KmpFailureWhile(pattern, failure, At(failure, j - 1), i)
    ELSE j

RECURSIVE KmpFailureFor(_, _, _, _)
KmpFailureFor(pattern, failure, j, i) ==
    IF i >= Len(pattern) THEN failure
    ELSE LET j1 == KmpFailureWhile(pattern, failure, j, i)
             j2 == IF At(pattern, i) = At(pattern, j1) THEN j1 + 1 ELSE j1
         IN  KmpFailureFor(pattern, [failure EXCEPT ![i + 1] = j2], j2, i + 1)

build_failure_function(pattern) ==
    KmpFailureFor(pattern, [k \in 1..Len(pattern) |-> 0], 0, 1)

\* after a full match the code continues at failure[j - 1]
KmpAfterMatchMut(failure, j) == 0

KmpAfterMatch(failure, j) == At(failure, j - 1)

RECURSIVE KmpLoop(_, _, _, _, _, _)
KmpLoop(text, pattern, failure, i, j, matches) ==
    IF i >= Len(text) THEN matches
    ELSE IF At(text, i) = At(pattern, j)
         THEN IF j + 1 = Len(pattern)
              THEN KmpLoop(text, pattern, failure, i + 1,
                           KmpAfterMatch(failure, j + 1),
                           Append(matches, (i + 1) - (j + 1)))
              ELSE KmpLoop(text, pattern, failure, i + 1, j + 1, matches)
         ELSE IF j # 0
              THEN KmpLoop(text, pattern, failure, i, At(failure, j - 1), matches)
              ELSE KmpLoop(text, pattern, failure, i + 1, j, matches)

KMPMatcher_search(text, pattern) ==
    IF pattern = <<>> \/ text = <<>> THEN <<>>
    ELSE LET p == Lower(pattern)
             t == Lower(text)
         IN  KmpLoop(t, p, build_failure_function(p), 0, 0, <<>>)

(***************************************************************************)
(* algorithms/boyer_moore.py                                               *)
(***************************************************************************)
build_last_occurrence_table(pattern) ==
    [c \in Range(pattern) |->
        SetMax({i \in 0..(Len(pattern) - 1) : At(pattern, i) = c})]

\* last_occurrence.get(mismatched_char, -1)
LastPos(last_occurrence, c) ==
    IF c \in DOMAIN last_occurrence THEN last_occurrence[c] ELSE -1

RECURSIVE BmScan(_, _, _, _)
BmScan(text, pattern, shift, j) ==
    IF j >= 0 /\ At(pattern, j) = At(text, shift + j)
    THEN BmScan(text, pattern, shift, j - 1)
    ELSE j

\* shift applied after a full match
BmMatchShiftMut(pattern) == Len(pattern)

BmMatchShift(pattern) == 1

RECURSIVE BmLoop(_, _, _, _, _)
BmLoop(text, pattern, last_occurrence, shift, matches) ==
    IF ~(shift <= Len(text) - Len(pattern)) THEN matches
    ELSE LET j == BmScan(text, pattern, shift, Len(pattern) - 1)
         IN  IF j < 0
             THEN BmLoop(text, pattern, last_occurrence,
                         shift + BmMatchShift(pattern), Append(matches, shift))
             ELSE LET last_pos == LastPos(last_occurrence, At(text, shift + j))
                  IN  BmLoop(text, pattern, last_occurrence,
                             shift + Max2(1, j - last_pos), matches)

BoyerMooreMatcher_search(text, pattern) ==
    IF pattern = <<>> \/ text = <<>> THEN <<>>
    ELSE LET p == Lower(pattern)
             t == Lower(text)
         IN  BmLoop(t, p, build_last_occurrence_table(p), 0, <<>>)

(***************************************************************************)
(* algorithms/string_matching.py: BoyerMooreAlgorithm (bad character and   *)
(* good suffix)                                                            *)
(***************************************************************************)
bad_character_table(pattern) ==
    [c \in Range(pattern) |->
        SetMax({i \in 0..(Len(pattern) - 1) : At(pattern, i) = c})]

\* pattern[p:] is a prefix of pattern
is_prefix(pattern, p) ==
    \A i \in p..(Len(pattern) - 1) : At(pattern, i) = At(pattern, i - p)

\* the while loop of suffix_length, with i and j as they stand
RECURSIVE SuffixLengthFrom(_, _, _, _)
SuffixLengthFrom(pattern, i, j, length) ==
    IF i >= 0 /\ At(pattern, i) = At(pattern, j)
    THEN SuffixLengthFrom(pattern, i - 1, j - 1, length + 1)
    ELSE length

suffix_length(pattern, p) == SuffixLengthFrom(pattern, p, Len(pattern) - 1, 0)

\* good_suffix_table, first loop: for i in range(m - 1, -1, -1)
RECURSIVE GoodSuffixPrefixes(_, _, _, _)
GoodSuffixPrefixes(pattern, i, last_prefix_position, good_suffix) ==
    IF i < 0 THEN good_suffix
    ELSE LET m == Len(pattern)
             position == IF is_prefix(pattern, i + 1) THEN i + 1
                         ELSE last_prefix_position
             filled == [good_suffix EXCEPT ![i] = position + (m - 1 - i)]
         IN  CASE filled[i] > 0 ->
                  GoodSuffixPrefixes(pattern, i - 1, position, filled)

\* good_suffix_table, second loop: for i in range(m - 1)
RECURSIVE GoodSuffixSuffixes(_, _, _)
GoodSuffixSuffixes(pattern, i, good_suffix) ==
    IF i >= Len(pattern) - 1 THEN good_suffix
    ELSE LET m == Len(pattern)
             length == suffix_length(pattern, i)
             filled == [good_suffix EXCEPT ![m - 1 - length] = m - 1 - i + length]
         IN  CASE filled[0] > 0 -> GoodSuffixSuffixes(pattern, i + 1, filled)

good_suffix_table(pattern) ==
    LET m == Len(pattern)
    IN  GoodSuffixSuffixes(pattern, 0,
            GoodSuffixPrefixes(pattern, m - 1, m, [i \in 0..(m - 1) |-> 0]))

\* the inner while loop of search: j after the comparison from the right
RECURSIVE GsScan(_, _, _, _)
GsScan(text, pattern, i, j) ==
    IF j >= 0 /\ At(pattern, j) = At(text, i + j)
    THEN GsScan(text, pattern, i, j - 1)
    ELSE j

\* bad_char.get(text[i + j], -1)
BadCharGet(bad_char, c) == IF c \in DOMAIN bad_char THEN bad_char[c] ELSE -1

\* the shift after a mismatch at pattern[j]
GsMismatchShift(bad_char_shift, good_suffix_shift) ==
    Max2(bad_char_shift, good_suffix_shift)

RECURSIVE GsLoop(_, _, _, _, _, _)
GsLoop(text, pattern, bad_char, good_suffix, i, occurrences) ==
    IF ~(i <= Len(text) - Len(pattern)) THEN occurrences
    ELSE LET j == GsScan(text, pattern, i, Len(pattern) - 1)
         IN  IF j < 0
             THEN GsLoop(text, pattern, bad_char, good_suffix,
                         i + good_suffix[0], Append(occurrences, i))
             ELSE LET bad_char_shift == j - BadCharGet(bad_char, At(text, i + j))
                      good_suffix_shift == good_suffix[j]
                  IN  GsLoop(text, pattern, bad_char, good_suffix,
                             i + GsMismatchShift(bad_char_shift, good_suffix_shift),
                             occurrences)

BoyerMooreAlgorithm_search(text_in, pattern_in) ==
    IF pattern_in = <<>> \/ text_in = <<>> THEN <<>>
    ELSE LET text == Lower(text_in)
             pattern == Lower(pattern_in)
         IN  GsLoop(text, pattern, bad_character_table(pattern),
                    good_suffix_table(pattern), 0, <<>>)

(***************************************************************************)
(* algorithms/aho_corasick.py                                              *)
(* A trie node is named by the path that leads to it; the root is <<>>.    *)
(***************************************************************************)
NoneNode == <<"None">>

AcRoot == <<>>

\* the patterns as build_automaton inserts them
AcInserted(patterns) == [k \in 1..Len(patterns) |-> Lower(patterns[k])]

\* the nodes _insert_pattern creates
AcNodes(patterns) ==
    {AcRoot} \cup UNION {{Slice(p, 0, k) : k \in 0..Len(p)} :
                            p \in Range(AcInserted(patterns))}

\* char in node.children
AcHasChild(nodes, node, c) == Append(node, c) \in nodes

RECURSIVE AcFailure(_, _)
RECURSIVE AcFailureWalk(_, _, _)
\* while failure and char not in failure.children: failure = failure.failure
AcFailureWalk(nodes, failure, c) ==
    IF failure # NoneNode /\ ~AcHasChild(nodes, failure, c)
    THEN AcFailureWalk(nodes, AcFailure(nodes, failure), c)
    ELSE failure

\* node.failure after _build_failure_links
AcFailure(nodes, node) ==
    IF node = AcRoot THEN NoneNode
    ELSE IF Len(node) = 1 THEN AcRoot
    ELSE LET current == Slice(node, 0, Len(node) - 1)
             c == node[Len(node)]
             failure == AcFailureWalk(nodes, AcFailure(nodes, current), c)
         IN  IF failure # NoneNode THEN Append(failure, c) ELSE AcRoot

\* node.output after _build_failure_links
RECURSIVE AcOutput(_, _, _)
AcOutputMut(patterns, nodes, node) ==
    SelectSeq(AcInserted(patterns), LAMBDA p : p = node)

AcOutput(patterns, nodes, node) ==
    LET own == SelectSeq(AcInserted(patterns), LAMBDA p : p = node)
    IN  IF Len(node) >= 2
        THEN own \o AcOutput(patterns, nodes, AcFailure(nodes, node))
        ELSE own

\* while node and char not in node.children: node = node.failure
RECURSIVE AcSearchWalk(_, _, _)
AcSearchWalk(nodes, node, c) ==
    IF node # NoneNode /\ ~AcHasChild(nodes, node, c)
    THEN AcSearchWalk(nodes, AcFailure(nodes, node), c)
    ELSE node

\* matches[pattern].append(start_pos) on a defaultdict(list)
AcRecord(matches, pattern, start_pos) ==
    IF pattern \in DOMAIN matches
    THEN [matches EXCEPT ![pattern] = Append(@, start_pos)]
    ELSE [q \in DOMAIN matches \cup {pattern} |->
             IF q = pattern THEN <<start_pos>> ELSE matches[q]]

RECURSIVE AcRecordAll(_, _, _, _)
AcRecordAll(matches, output, i, k) ==
    IF k > Len(output) THEN matches
    ELSE AcRecordAll(AcRecord(matches, output[k], i - Len(output[k]) + 1),
                     output, i, k + 1)

RECURSIVE AcSearchLoop(_, _, _, _, _, _)
AcSearchLoop(patterns, nodes, text, i, node, matches) ==
    IF i >= Len(text) THEN matches
    ELSE LET c == At(text, i)
             n1 == AcSearchWalk(nodes, node, c)
             n2 == IF n1 # NoneNode THEN Append(n1, c) ELSE AcRoot
         IN  AcSearchLoop(patterns, nodes, text, i + 1, n2,
                          AcRecordAll(matches, AcOutput(patterns, nodes, n2), i, 1))

EmptyDict == [q \in {} |-> <<>>]

\* AhoCorasickMatcher(patterns).search(text): dict pattern -> offsets
AhoCorasickMatcher_search(patterns, text) ==
    AcSearchLoop(patterns, AcNodes(patterns), Lower(text), 0, AcRoot, EmptyDict)

\* the offsets the returned dict holds for key p ([] when p is no key)
AcOffsets(result, p) == IF p \in DOMAIN result THEN result[p] ELSE <<>>

(***************************************************************************)
(* algorithms/fuzzy_matcher.py                                             *)
(* A similarity is a float in [0, 1] in the source; the model holds it as  *)
(* the integer similarity * SimScale.  SimScale is divisible by every      *)
(* string length the model uses, so distance / max_len is represented      *)
(* exactly.                                                                *)
(***************************************************************************)
SimScale == 8 * 9 * 5 * 7

Min3Mut(a, b, c) == Min2(a, b)

Min3(a, b, c) == Min2(a, Min2(b, c))

\* dp[i][j] from dp[i - 1] (prev) and the cells of dp[i] left of it (row)
EditCell(s1, s2, i, prev, row, j) ==
    IF s1[i] = s2[j]
    THEN prev[j]
    ELSE 1 + Min3(prev[j + 1], row[j], prev[j])

\* dp[i][1..n] from dp[i - 1], left to right; each cell is stored before the
\* next one is computed
RECURSIVE EditRow(_, _, _, _, _, _)
EditRow(s1, s2, i, prev, row, j) ==
    IF j > Len(s2) THEN row
    ELSE LET filled == Append(row, EditCell(s1, s2, i, prev, row, j))
         IN  CASE Len(filled) = j + 1 -> EditRow(s1, s2, i, prev, filled, j + 1)

\* rows are stored with dp[i][j] at index j + 1
\* base case dp[i][0] = i
EditFirstColumnMut(i) == 0

EditFirstColumn(i) == i

RECURSIVE EditRows(_, _, _, _)
EditRows(s1, s2, i, prev) ==
    IF i > Len(s1) THEN prev
    ELSE CASE Len(prev) = Len(s2) + 1 ->
              EditRows(s1, s2, i + 1, EditRow(s1, s2, i, prev, <<EditFirstColumn(i)>>, 1))

edit_distance(s1, s2) ==
    LET last == EditRows(s1, s2, 1, [j \in 1..(Len(s2) + 1) |-> j - 1])
    IN  last[Len(s2) + 1]

similarity_ratio(s1, s2) ==
    IF s1 = <<>> \/ s2 = <<>> THEN 0
    ELSE LET a == Lower(s1)
             b == Lower(s2)
         IN  IF a = b THEN SimScale
             ELSE LET distance == edit_distance(a, b)
                      max_len == Max2(Len(a), Len(b))
                  IN  SimScale - ((distance * SimScale) \div max_len)

(***************************************************************************)
(* core/search_utils.py, core/search_workers.py: text of an applicant      *)
(* An applicant dict is modelled by its detail_id and two of its text      *)
(* fields: address (read by get_searchable_text only) and extracted_text   *)
(* (read by both projections).  The other fields are empty.                *)
(***************************************************************************)
RECURSIVE LStrip(_)
LStrip(s) == IF s # <<>> /\ s[1] = " " THEN LStrip(Tail(s)) ELSE s

RECURSIVE RStrip(_)
RStrip(s) ==
    IF s # <<>> /\ s[Len(s)] = " " THEN RStrip(SubSeq(s, 1, Len(s) - 1)) ELSE s

\* str.strip()
Strip(s) == RStrip(LStrip(s))

\* ' '.join(parts)
RECURSIVE JoinSpace(_)
JoinSpace(parts) ==
    IF parts = <<>> THEN <<>>
    ELSE IF Len(parts) = 1 THEN parts[1]
    ELSE parts[1] \o <<" ">> \o JoinSpace(Tail(parts))

\* str.split()
RECURSIVE SplitFrom(_, _, _, _)
SplitFrom(s, i, cur, acc) ==
    IF i > Len(s) THEN (IF cur = <<>> THEN acc ELSE Append(acc, cur))
    ELSE LET word == IF s[i] = " " THEN <<>> ELSE Append(cur, s[i])
             words == IF s[i] = " " /\ cur # <<>> THEN Append(acc, cur) ELSE acc
         IN  CASE Len(word) >= 0 /\ Len(words) >= 0 -> SplitFrom(s, i + 1, word, words)

Split(s) == SplitFrom(s, 1, <<>>, <<>>)

(***************************************************************************)
(* algorithms/fuzzy_matcher.py: substring_similarity and its helpers.      *)
(* Similarities are in units of 1 / SimScale; p hundredths is Pct(p).      *)
(***************************************************************************)
Pct(p) == (p * SimScale) \div 100

\* sub in s
InStr(sub, s) ==
    \E i \in 0..(Len(s) - Len(sub)) : SubSeq(s, i + 1, i + Len(sub)) = sub

\* w[:-n]
DropLast(w, n) == SubSeq(w, 1, Len(w) - n)

\* w.startswith(prefix)
StartsWith(w, prefix) ==
    Len(prefix) <= Len(w) /\ SubSeq(w, 1, Len(prefix)) = prefix

\* _phrase_similarity: the similarity of one pair of words of the zip
WordSimilarity(w1, w2) ==
    IF w1 = w2 THEN SimScale
    ELSE LET word_sim == similarity_ratio(w1, w2)
         IN  IF Len(w1) > 5 /\ Len(w2) > 5
             THEN IF DropLast(w1, 1) = DropLast(w2, 1) \/ DropLast(w1, 2) = DropLast(w2, 2)
                  THEN Max2(word_sim, Pct(90))
                  ELSE IF StartsWith(w1, w2) \/ StartsWith(w2, w1)
                       THEN Max2(word_sim, Pct(85))
                       ELSE word_sim
             ELSE word_sim

RECURSIVE SumSeq(_)
SumSeq(xs) == IF xs = <<>> THEN 0 ELSE Head(xs) + SumSeq(Tail(xs))

\* _phrase_similarity: the word-level analysis that ends the function
PhraseWordLevel(phrase1, phrase2, base_similarity) ==
    LET words1 == Split(phrase1)
        words2 == Split(phrase2)
    IN  IF Len(words1) = Len(words2) /\ words1 # <<>>
        THEN LET word_similarities ==
                     [k \in 1..Len(words1) |-> WordSimilarity(words1[k], words2[k])]
                 total == SumSeq(word_similarities)
                 avg_similarity == total \div Len(words1)
             IN  IF 10 * total > 8 * SimScale * Len(words1)
                 THEN Max2(base_similarity, avg_similarity)
                 ELSE base_similarity
        ELSE base_similarity

phrase_similarity(phrase1, phrase2) ==
    IF phrase1 = phrase2 THEN SimScale
    ELSE LET base_similarity == similarity_ratio(phrase1, phrase2)
         IN  IF Len(phrase1) > 50 \/ Len(phrase2) > 50
             THEN LET edit_dist == edit_distance(phrase1, phrase2)
                  IN  IF edit_dist <= 1 THEN Max2(base_similarity, Pct(95))
                      ELSE IF edit_dist <= 2 THEN Max2(base_similarity, Pct(90))
                      ELSE IF edit_dist <= 3 THEN Max2(base_similarity, Pct(85))
                      ELSE PhraseWordLevel(phrase1, phrase2, base_similarity)
             ELSE PhraseWordLevel(phrase1, phrase2, base_similarity)

\* similarity > 0.95: the early exit of _sliding_window_similarity
VeryGoodMatchMut(similarity) == similarity > SimScale

VeryGoodMatch(similarity) == similarity > Pct(95)

\* window sizes range(max(1, query_len - 2), min(len(text_words) + 1, query_len + 3))
FirstWindowSize(query_len) == Max2(1, query_len - 2)

WindowSizeLimit(query_len, text_words) == Min2(Len(text_words) + 1, query_len + 3)

\* _sliding_window_similarity: the inner loop, for i in range(...), from
\* window i on with best_similarity as found so far; returned is TRUE when
\* the loop ran into the return statement
RECURSIVE SlideWindows(_, _, _, _, _)
SlideWindows(query, text_words, window_size, i, best_similarity) ==
    IF i >= Len(text_words) - window_size + 1
    THEN [returned |-> FALSE, best_similarity |-> best_similarity]
    ELSE LET window_text == JoinSpace(Slice(text_words, i, i + window_size))
             similarity == phrase_similarity(query, window_text)
             best == Max2(best_similarity, similarity)
         IN  IF VeryGoodMatch(similarity)
             THEN [returned |-> TRUE, best_similarity |-> similarity]
             ELSE CASE best >= 0 ->
                      SlideWindows(query, text_words, window_size, i + 1, best)

\* _sliding_window_similarity: the outer loop, for window_size in range(...),
\* from window_size on
RECURSIVE SlidingFrom(_, _, _, _, _)
SlidingFrom(query, text_words, query_len, window_size, best_similarity) ==
    IF window_size >= WindowSizeLimit(query_len, text_words) THEN best_similarity
    ELSE LET inner == SlideWindows(query, text_words, window_size, 0, best_similarity)
         IN  IF inner.returned THEN inner.best_similarity
             ELSE SlidingFrom(query, text_words, query_len, window_size + 1,
                              inner.best_similarity)

sliding_window_similarity(query, text, query_words, text_words) ==
    SlidingFrom(query, text_words, Len(query_words),
                FirstWindowSize(Len(query_words)), 0)

\* the leniency for single words: min(0.85, base_similarity + 0.1)
SingleWordLeniency(query, base_similarity) ==
    IF Len(query) > 8 /\ base_similarity > Pct(75)
    THEN Min2(Pct(85), base_similarity + Pct(10))
    ELSE base_similarity

substring_similarity(query_in, text_in) ==
    IF query_in = <<>> \/ text_in = <<>> THEN 0
    ELSE LET query == Strip(Lower(query_in))
             text == Strip(Lower(text_in))
         IN  IF query = text THEN SimScale
             ELSE IF InStr(query, text) THEN Pct(90)
             ELSE IF InStr(text, query) THEN Pct(85)
             ELSE LET query_words == Split(query)
                      text_words == Split(text)
                  IN  IF Len(query_words) > 1
                      THEN sliding_window_similarity(query, text, query_words, text_words)
                      ELSE SingleWordLeniency(query, similarity_ratio(query, text))

\* [part.strip() for part in text_parts if part and part.strip()]
FilteredParts(text_parts) ==
    LET kept == SelectSeq(text_parts, LAMBDA part : part # <<>> /\ Strip(part) # <<>>)
    IN  [k \in 1..Len(kept) |-> Strip(kept[k])]

get_searchable_text(applicant) ==
    JoinSpace(FilteredParts(<<applicant.address, applicant.extracted_text>>))

\* the worker's projection leaves phone and address out
get_searchable_text_worker(applicant) ==
    JoinSpace(FilteredParts(<<applicant.extracted_text>>))

(***************************************************************************)
(* core/search_engine.py, core/search_utils.py: parameters                 *)
(***************************************************************************)
MaxResultsCap == 1000
MinChunkSize == 5
MaxChunkSize == 100
MpMinThreshold == 10
PoolWorkersCap == 8
ItemsPerWorker == 5
EarlyStopFactor == 3

\* thresholds in units of 1 / SimScale
calculate_dynamic_thresholdMut(search_term) ==
    LET term_length == Len(search_term)
    IN  IF term_length <= 5 THEN SimScale ELSE (70 * SimScale) \div 100

calculate_dynamic_threshold(search_term) ==
    LET term_length == Len(Strip(search_term))
    IN  IF term_length <= 3 THEN SimScale
        ELSE IF term_length <= 5 THEN (95 * SimScale) \div 100
        ELSE IF term_length <= 8 THEN (85 * SimScale) \div 100
        ELSE IF term_length <= 12 THEN (80 * SimScale) \div 100
        ELSE (70 * SimScale) \div 100

\* keywords = [str(kw).strip().lower() for kw in keywords if str(kw).strip()]
ValidKeywords(kws) ==
    LET kept == SelectSeq(kws, LAMBDA kw : Strip(kw) # <<>>)
    IN  [k \in 1..Len(kept) |-> Lower(Strip(kept[k]))]

ValidAlgorithm(alg) == IF alg \in {"KMP", "BM", "AC"} THEN alg ELSE "KMP"

ValidMaxResults(n) == Max2(1, Min2(MaxResultsCap, n))

calculate_optimal_chunk_sizeMut(total_items, num_workers) ==
    IF total_items <= 0 \/ num_workers <= 0 THEN MinChunkSize
    ELSE Max2(MinChunkSize, total_items \div num_workers)

calculate_optimal_chunk_size(total_items, num_workers) ==
    IF total_items <= 0 \/ num_workers <= 0 THEN MinChunkSize
    ELSE Min2(Max2(MinChunkSize, total_items \div num_workers), MaxChunkSize)

should_use_multiprocessing(total_items, use_mp) ==
    IF ~use_mp THEN FALSE ELSE total_items >= MpMinThreshold

(***************************************************************************)
(* Dicts.  A dict keyed by keyword is a function; a dict of results keyed  *)
(* by detail_id is the sequence of its values in insertion order (the      *)
(* order list(combined.values()) and the stable sort see).                 *)
(***************************************************************************)
DictSet(d, key, v) ==
    [q \in DOMAIN d \cup {key} |-> IF q = key THEN v ELSE d[q]]

Ids(results) == {results[k].detail_id : k \in 1..Len(results)}

\* results[applicant_id] = rec
ResultPut(results, rec) ==
    IF rec.detail_id \in Ids(results)
    THEN [k \in 1..Len(results) |->
             IF results[k].detail_id = rec.detail_id THEN rec ELSE results[k]]
    ELSE Append(results, rec)

\* results.update(more)
RECURSIVE ResultUpdate(_, _)
ResultUpdate(results, more) ==
    IF more = <<>> THEN results
    ELSE ResultUpdate(ResultPut(results, Head(more)), Tail(more))

ResultGet(results, id) ==
    results[CHOOSE k \in 1..Len(results) : results[k].detail_id = id]

RECURSIVE SumOver(_, _)
SumOver(f, S) ==
    IF S = {} THEN 0
    ELSE LET x == CHOOSE y \in S : TRUE IN f[x] + SumOver(f, S \ {x})

(***************************************************************************)
(* core/search_engine.py: exact phase                                      *)
(***************************************************************************)
\* overall_score of an exact result, in units of 1 / SimScale
ExactResult(applicant, matches, total_matches) ==
    [detail_id |-> applicant.detail_id,
     exact_matches |-> matches,
     total_exact_matches |-> total_matches,
     fuzzy_matches |-> EmptyDict,
     total_fuzzy_matches |-> 0,
     overall_score |-> total_matches * SimScale]

\* matches = {} and total_matches = 0 before the per-keyword loop
NoCounts == [matches |-> EmptyDict, total |-> 0]

\* the per-keyword loop of the KMP / BM branch
RECURSIVE SingleKeywordLoop(_, _, _, _, _, _)
SingleKeywordLoop(alg, text, kws, k, matches, total_matches) ==
    IF k > Len(kws) THEN [matches |-> matches, total |-> total_matches]
    ELSE LET occurrences == IF alg = "BM"
                            THEN BoyerMooreMatcher_search(text, kws[k])
                            ELSE KMPMatcher_search(text, kws[k])
         IN  IF occurrences # <<>>
             THEN SingleKeywordLoop(alg, text, kws, k + 1,
                                    DictSet(matches, kws[k], Len(occurrences)),
                                    total_matches + Len(occurrences))
             ELSE SingleKeywordLoop(alg, text, kws, k + 1, matches, total_matches)

\* the per-keyword loop over pattern_matches of the Aho-Corasick branch
RECURSIVE AcKeywordLoop(_, _, _, _, _)
AcKeywordLoop(pattern_matches, kws, k, matches, total_matches) ==
    IF k > Len(kws) THEN [matches |-> matches, total |-> total_matches]
    ELSE IF kws[k] \in DOMAIN pattern_matches /\ pattern_matches[kws[k]] # <<>>
         THEN AcKeywordLoop(pattern_matches, kws, k + 1,
                            DictSet(matches, kws[k], Len(pattern_matches[kws[k]])),
                            total_matches + Len(pattern_matches[kws[k]]))
         ELSE AcKeywordLoop(pattern_matches, kws, k + 1, matches, total_matches)

\* exact matching of one applicant text
ExactMatchText(alg, text, kws) ==
    IF alg = "AC"
    THEN AcKeywordLoop(AhoCorasickMatcher_search(kws, text), kws, 1, EmptyDict, 0)
    ELSE SingleKeywordLoop(alg, Lower(text), kws, 1, EmptyDict, 0)

SearchableText(applicant, in_worker) ==
    IF in_worker THEN get_searchable_text_worker(applicant)
    ELSE get_searchable_text(applicant)

\* if matches: / if fuzzy_matches: a result is recorded only for a non-empty dict
HasMatchesMut(matches) == TRUE

HasMatches(matches) == DOMAIN matches # {}

\* `if matches: results[applicant_id] = {...}`
ExactAppend(results, applicant, m) ==
    IF HasMatches(m.matches)
    THEN ResultPut(results, ExactResult(applicant, m.matches, m.total))
    ELSE results

\* the per-applicant loop shared by _perform_exact_matching,
\* _aho_corasick_search and _process_chunk_exact
RECURSIVE ExactLoop(_, _, _, _, _, _)
ExactLoop(applicant_dicts, kws, alg, in_worker, i, results) ==
    IF i > Len(applicant_dicts) THEN results
    ELSE LET applicant == applicant_dicts[i]
         IN  IF applicant.detail_id = 0 THEN
                 ExactLoop(applicant_dicts, kws, alg, in_worker, i + 1, results)
             ELSE ExactLoop(applicant_dicts, kws, alg, in_worker, i + 1,
                            ExactAppend(results, applicant,
                                ExactMatchText(alg, SearchableText(applicant, in_worker),
                                               kws)))

\* _perform_exact_matching, with _aho_corasick_search for "AC"
perform_exact_matching(applicant_dicts, kws, alg) ==
    IF alg = "AC" /\ kws = <<>> THEN <<>>
    ELSE ExactLoop(applicant_dicts, kws, alg, FALSE, 1, <<>>)

\* _process_chunk_exact (its own failure is the action ExactTaskFails)
process_chunk_exact(applicant_chunk, kws, alg) ==
    ExactLoop(applicant_chunk, kws, alg, TRUE, 1, <<>>)

(***************************************************************************)
(* core/search_engine.py: fuzzy phase                                      *)
(***************************************************************************)
\* keywords that appear in some exact_matches of exact_results
KeywordsWithExactMatches(exact) ==
    UNION {DOMAIN exact[k].exact_matches : k \in 1..Len(exact)}

KeywordsForFuzzy(kws, exact) ==
    SelectSeq(kws, LAMBDA kw : kw \notin KeywordsWithExactMatches(exact))

\* dynamic_thresholds.get(keyword, 0.7)
ThresholdOfMut(dynamic_thresholds, keyword) == 0

ThresholdOf(dynamic_thresholds, keyword) ==
    IF keyword \in DOMAIN dynamic_thresholds THEN dynamic_thresholds[keyword]
    ELSE (70 * SimScale) \div 100

\* the loop over words: the best similarity reaching the threshold.  The
\* source keeps the first word of the set's iteration order that attains it;
\* the model keeps every word that attains it.
BestWordMatch(keyword, words, keyword_threshold) ==
    LET similarity == [w \in words |-> similarity_ratio(keyword, w)]
        ok == {w \in words : /\ similarity[w] >= keyword_threshold
                             /\ similarity[w] > 0}
    IN  IF ok = {} THEN [found |-> FALSE, similarity |-> 0, matched_word |-> {}]
        ELSE LET best == SetMax({similarity[w] : w \in ok})
             IN  [found |-> TRUE, similarity |-> best,
                  matched_word |-> {w \in ok : similarity[w] = best}]

\* fuzzy_matches = {}; total_fuzzy_score = 0
NoFuzzyMatches == [matches |-> EmptyDict, total |-> 0]

\* fuzzy_matches[keyword] = {...}; total_fuzzy_score += best_similarity, when
\* the keyword's best word reaches the threshold
FuzzyKeywordPut(acc, keyword, b) ==
    IF b.found
    THEN [matches |-> DictSet(acc.matches, keyword,
                              [matched_word |-> b.matched_word,
                               similarity |-> b.similarity]),
          total |-> acc.total + b.similarity]
    ELSE acc

\* the per-keyword loop; acc holds fuzzy_matches and total_fuzzy_score
RECURSIVE FuzzyKeywordLoop(_, _, _, _, _)
FuzzyKeywordLoop(words, kws, dynamic_thresholds, k, acc) ==
    IF k > Len(kws) THEN acc
    ELSE FuzzyKeywordLoop(words, kws, dynamic_thresholds, k + 1,
             FuzzyKeywordPut(acc, kws[k],
                 BestWordMatch(kws[k], words,
                               ThresholdOf(dynamic_thresholds, kws[k]))))

FuzzyResult(applicant, fuzzy_matches, total_fuzzy_score) ==
    [detail_id |-> applicant.detail_id,
     exact_matches |-> EmptyDict,
     total_exact_matches |-> 0,
     fuzzy_matches |-> fuzzy_matches,
     total_fuzzy_matches |-> Cardinality(DOMAIN fuzzy_matches),
     overall_score |-> total_fuzzy_score]

\* `if fuzzy_matches: fuzzy_results[applicant_id] = {...}`
FuzzyAppend(results, applicant, m) ==
    IF HasMatches(m.matches)
    THEN ResultPut(results, FuzzyResult(applicant, m.matches, m.total))
    ELSE results

\* the per-applicant loop; skip_ids are the ids of exact_results
RECURSIVE FuzzyLoop(_, _, _, _, _, _, _)
FuzzyLoop(applicant_dicts, kws, dynamic_thresholds, skip_ids, in_worker, i, results) ==
    IF i > Len(applicant_dicts) THEN results
    ELSE LET applicant == applicant_dicts[i]
             words == Range(Split(Lower(SearchableText(applicant, in_worker))))
         IN  IF applicant.detail_id = 0 \/ applicant.detail_id \in skip_ids THEN
                 FuzzyLoop(applicant_dicts, kws, dynamic_thresholds, skip_ids,
                           in_worker, i + 1, results)
             ELSE FuzzyLoop(applicant_dicts, kws, dynamic_thresholds, skip_ids,
                            in_worker, i + 1,
                            FuzzyAppend(results, applicant,
                                FuzzyKeywordLoop(words, kws, dynamic_thresholds, 1,
                                                 NoFuzzyMatches)))

\* applicants that already have an exact result are skipped
FuzzySkipIds(exact) == Ids(exact)

perform_fuzzy_matching(applicant_dicts, kws, dynamic_thresholds, exact) ==
    LET keywords_for_fuzzy == KeywordsForFuzzy(kws, exact)
    IN  IF keywords_for_fuzzy = <<>> THEN <<>>
        ELSE FuzzyLoop(applicant_dicts, keywords_for_fuzzy, dynamic_thresholds,
                       FuzzySkipIds(exact), FALSE, 1, <<>>)

\* _process_chunk_fuzzy_dynamic(chunk, keywords_for_fuzzy, dynamic_thresholds):
\* imported and submitted by search_engine.py, defined in no source file at
\* hand.  Modelled as _process_chunk_fuzzy with the per-keyword threshold of
\* the fuzzy phase; it is not passed exact_results.
process_chunk_fuzzy_dynamic(applicant_chunk, kws, dynamic_thresholds) ==
    FuzzyLoop(applicant_chunk, kws, dynamic_thresholds, {}, TRUE, 1, <<>>)

(***************************************************************************)
(* core/search_utils.py: combine_and_rank_results                          *)
(***************************************************************************)
\* dict.update on a keyword-keyed dict
DictUpdate(d, e) ==
    [q \in DOMAIN d \cup DOMAIN e |-> IF q \in DOMAIN e THEN e[q] ELSE d[q]]

\* merge of a fuzzy result into the entry of the same applicant
MergeFuzzy(entry, fuzzy_result) ==
    [entry EXCEPT
        !.fuzzy_matches = DictUpdate(@, fuzzy_result.fuzzy_matches),
        !.total_fuzzy_matches = @ + fuzzy_result.total_fuzzy_matches,
        !.overall_score = @ + fuzzy_result.overall_score]

RECURSIVE CombineLoop(_, _)
CombineLoop(combined, fuzzy) ==
    IF fuzzy = <<>> THEN combined
    ELSE LET f == Head(fuzzy)
         IN  IF f.detail_id \in Ids(combined)
             THEN CombineLoop(ResultPut(combined,
                                  MergeFuzzy(ResultGet(combined, f.detail_id), f)),
                              Tail(fuzzy))
             ELSE CombineLoop(Append(combined, f), Tail(fuzzy))

\* position of x in a list sorted by overall_score, descending, stable
SortsBeforeMut(a, b) == a.overall_score <= b.overall_score

SortsBefore(a, b) == a.overall_score >= b.overall_score

RECURSIVE InsertSorted(_, _)
InsertSorted(sorted, x) ==
    IF sorted = <<>> THEN <<x>>
    ELSE IF SortsBefore(Head(sorted), x)
         THEN <<Head(sorted)>> \o InsertSorted(Tail(sorted), x)
         ELSE <<x>> \o sorted

\* results_list.sort(key=overall_score, reverse=True)
RECURSIVE SortDescending(_, _)
SortDescending(list, sorted) ==
    IF list = <<>> THEN sorted
    ELSE SortDescending(Tail(list), InsertSorted(sorted, Head(list)))

combine_and_rank_results(exact, fuzzy) ==
    SortDescending(CombineLoop(exact, fuzzy), <<>>)

\* combine_and_rank_results with the dict objects it shares.  The
\* fuzzy_matches dict of entry k of exact_results is the object <<"exact", k>>,
\* that of entry k of fuzzy_results the object <<"fuzzy", k>>; heap maps each
\* object to its content.
FuzzyMatchesObjects(exact, fuzzy) ==
    ({"exact"} \X (1..Len(exact))) \cup ({"fuzzy"} \X (1..Len(fuzzy)))

HeapAtCall(exact, fuzzy) ==
    [ref \in FuzzyMatchesObjects(exact, fuzzy) |->
        IF ref[1] = "exact" THEN exact[ref[2]].fuzzy_matches
        ELSE fuzzy[ref[2]].fuzzy_matches]

\* result.copy(): a new dict with the same values, so 'fuzzy_matches' of the
\* copy is the object ref that the entry holds
ShallowCopy(result, ref) == [result EXCEPT !.fuzzy_matches = ref]

\* the entry as read through the heap
Deref(entry, heap) == [entry EXCEPT !.fuzzy_matches = heap[@]]

\* the loop over fuzzy_results.items(), from entry k on
RECURSIVE CombineSharedLoop(_, _, _, _)
CombineSharedLoop(combined, heap, fuzzy, k) ==
    IF k > Len(fuzzy) THEN [combined |-> combined, heap |-> heap]
    ELSE LET fuzzy_result == fuzzy[k]
         IN  IF fuzzy_result.detail_id \in Ids(combined)
             THEN LET entry == ResultGet(combined, fuzzy_result.detail_id)
                      added == [entry EXCEPT
                                   !.total_fuzzy_matches =
                                       @ + fuzzy_result.total_fuzzy_matches,
                                   !.overall_score = @ + fuzzy_result.overall_score]
                      updated == [heap EXCEPT ![entry.fuzzy_matches] =
                                     DictUpdate(@, heap[<<"fuzzy", k>>])]
                  IN  CombineSharedLoop(ResultPut(combined, added), updated,
                                        fuzzy, k + 1)
             ELSE CombineSharedLoop(
                      Append(combined, ShallowCopy(fuzzy_result, <<"fuzzy", k>>)),
                      heap, fuzzy, k + 1)

\* what the call returns and what its two arguments hold afterwards
combine_and_rank_results_shared(exact, fuzzy) ==
    LET copies == [k \in 1..Len(exact) |-> ShallowCopy(exact[k], <<"exact", k>>)]
        end == CombineSharedLoop(copies, HeapAtCall(exact, fuzzy), fuzzy, 1)
    IN  [results |->
             SortDescending([k \in 1..Len(end.combined) |->
                                Deref(end.combined[k], end.heap)], <<>>),
         exact_results |->
             [k \in 1..Len(exact) |->
                 Deref(ShallowCopy(exact[k], <<"exact", k>>), end.heap)],
         fuzzy_results |->
             [k \in 1..Len(fuzzy) |->
                 Deref(ShallowCopy(fuzzy[k], <<"fuzzy", k>>), end.heap)]]

(***************************************************************************)
(* core/search_engine.py: the two search paths                             *)
(***************************************************************************)
DynamicThresholds(kws) ==
    [kw \in Range(kws) |-> calculate_dynamic_threshold(kw)]

\* combined_results[:max_results]
Limit(list, n) == Slice(list, 0, n)

SearchResult(results, alg, kws, mp) ==
    [results |-> results, algorithm_used |-> alg, keywords_searched |-> kws,
     multiprocessing_used |-> mp, error |-> "absent"]

empty_result(alg, kws) == SearchResult(<<>>, alg, kws, "absent")

\* _error_result: no results, and the 'error' key holds str(e)
error_result(alg, kws) ==
    [SearchResult(<<>>, alg, kws, "absent") EXCEPT !.error = "str(e)"]

single_threaded_search(applicant_dicts, kws, alg, maxres) ==
    LET exact == perform_exact_matching(applicant_dicts, kws, alg)
        fuzzy == perform_fuzzy_matching(applicant_dicts, kws,
                                        DynamicThresholds(kws), exact)
    IN  SearchResult(Limit(combine_and_rank_results(exact, fuzzy), maxres),
                     alg, kws, "False")

\* min(multiprocessing.cpu_count(), 8, len(applicant_dicts) // 5)
\* num_workers = min(multiprocessing.cpu_count(), 8, len(applicant_dicts) // 5)
num_workers_of(cpu_count, total_items) ==
    Min3(cpu_count, PoolWorkersCap, total_items \div ItemsPerWorker)

NumWorkers(applicant_dicts) == num_workers_of(CpuCount, Len(applicant_dicts))

ChunkSize(applicant_dicts) ==
    calculate_optimal_chunk_size(Len(applicant_dicts), NumWorkers(applicant_dicts))

\* chunks.append(applicant_dicts[i:i + chunk_size]) for i in range(0, len, chunk_size)
RECURSIVE ChunksFrom(_, _, _)
ChunksFrom(applicant_dicts, chunk_size, i) ==
    IF i >= Len(applicant_dicts) THEN <<>>
    ELSE <<Slice(applicant_dicts, i, i + chunk_size)>>
         \o ChunksFrom(applicant_dicts, chunk_size, i + chunk_size)

Chunks(applicant_dicts) == ChunksFrom(applicant_dicts, ChunkSize(applicant_dicts), 0)

NoReturn == [results |-> <<>>, algorithm_used |-> "", keywords_searched |-> <<>>,
             multiprocessing_used |-> "not returned", error |-> "absent"]

(***************************************************************************)
(* Matcher harness: Init draws a text and a pattern, the actions apply the *)
(* three matchers to them.                                                 *)
(***************************************************************************)
MatchAlphabet == {"a", "b", "A"}

Scenario1Text == <<"a", "b", "a", "b", "c", "a", "b", "a", "b">>

MatchTexts == StringsUpTo(MatchAlphabet, MaxTextLen) \cup {Scenario1Text}

MatchPatterns == StringsUpTo(MatchAlphabet, MaxPatLen)

KmpRan == mpc \in {"bm", "ac", "done", "compared"}

BmRan == mpc \in {"ac", "done", "compared"}

AcRan == mpc \in {"done", "compared"}

ThrIdle ==
    /\ thrTerm1 = <<>>
    /\ thrTerm2 = <<>>
    /\ thrPc = "idle"
    /\ thrOut1 = 0
    /\ thrOut2 = 0

ChkIdle ==
    /\ chkCorpus = <<>>
    /\ chkCpu = 1
    /\ chkPc = "idle"
    /\ chkSize = 0
    /\ chkChunks = <<>>

SubIdle ==
    /\ subQuery = <<>>
    /\ subText = <<>>
    /\ subPc = "idle"
    /\ subOut = 0
    /\ slideOut = 0

ExIdle ==
    /\ exKeywords = <<>>
    /\ exText = <<>>
    /\ exPc = "idle"
    /\ exAc = NoCounts
    /\ exKmp = NoCounts
    /\ exBm = NoCounts

CmbIdle ==
    /\ cmbExact = <<>>
    /\ cmbFuzzy = <<>>
    /\ cmbPc = "idle"
    /\ cmbExactAfter = <<>>
    /\ cmbFuzzyAfter = <<>>
    /\ cmbOut = <<>>

HelperIdle == ExIdle /\ CmbIdle

\* the harnesses of the pure functions are not in use
PureIdle ==
    /\ ThrIdle
    /\ ChkIdle
    /\ SubIdle
    /\ HelperIdle

FuzzIdle ==
    /\ fuzzS1 = <<>>
    /\ fuzzS2 = <<>>
    /\ fuzzPc = "idle"
    /\ fuzzDistance = 0
    /\ fuzzReverse = 0
    /\ fuzzSimilarity = 0

SearchIdle ==
    /\ corpus = <<>>
    /\ keywords = <<>>
    /\ algorithm = "KMP"
    /\ max_results = 1
    /\ use_multiprocessing = FALSE
    /\ pc = "idle"
    /\ probe = "none"
    /\ exactState = <<>>
    /\ fuzzyState = <<>>
    /\ exact_results = <<>>
    /\ fuzzy_results = <<>>
    /\ fuzzyKeywords = <<>>
    /\ poolError = "none"
    /\ returned = NoReturn
    /\ loaded = FALSE
    /\ failedDoc = 0

MatchInit ==
    /\ mtext \in MatchTexts
    /\ mpattern \in MatchPatterns
    /\ mpc = "kmp"
    /\ kmpOut = <<>>
    /\ bmOut = <<>>
    /\ acOut = EmptyDict
    /\ gsOut = <<>>
    /\ SearchIdle
    /\ FuzzIdle
    /\ PureIdle

RunKMP ==
    /\ mpc = "kmp"
    /\ kmpOut' = KMPMatcher_search(mtext, mpattern)
    /\ mpc' = "bm"
    /\ UNCHANGED <<mtext, mpattern, bmOut, acOut, gsOut, searchVars, fuzzVars, pureVars>>

RunBoyerMoore ==
    /\ mpc = "bm"
    /\ bmOut' = BoyerMooreMatcher_search(mtext, mpattern)
    /\ mpc' = "ac"
    /\ UNCHANGED <<mtext, mpattern, kmpOut, acOut, gsOut, searchVars, fuzzVars, pureVars>>

\* AhoCorasickMatcher([pattern]).search(text)
RunAhoCorasick ==
    /\ mpc = "ac"
    /\ acOut' = AhoCorasickMatcher_search(<<mpattern>>, mtext)
    /\ mpc' = "done"
    /\ UNCHANGED <<mtext, mpattern, kmpOut, bmOut, gsOut, searchVars, fuzzVars, pureVars>>

\* BoyerMooreAlgorithm.search(text, pattern)
RunGoodSuffix ==
    /\ mpc = "done"
    /\ gsOut' = BoyerMooreAlgorithm_search(mtext, mpattern)
    /\ mpc' = "compared"
    /\ UNCHANGED <<mtext, mpattern, kmpOut, bmOut, acOut, searchVars, fuzzVars, pureVars>>

MatchNext == RunKMP \/ RunBoyerMoore \/ RunAhoCorasick \/ RunGoodSuffix

MatchSpec == MatchInit /\ [][MatchNext]_vars

\* the start offsets at which lower(pattern) occurs in lower(text)
Occurrences(text, pattern) ==
    {i \in 0..(Len(text) - Len(pattern)) :
        \A k \in 0..(Len(pattern) - 1) :
            LowerChar(At(text, i + k)) = LowerChar(At(pattern, k))}

StrictlyAscending(s) == \A k \in 1..(Len(s) - 1) : s[k] < s[k + 1]

\* C1: on every text and pattern, KMPMatcher.search and
\* BoyerMooreMatcher.search return the same list of offsets.
C1_KmpEqualsBoyerMoore ==
    BmRan => kmpOut = bmOut

\* both matchers ran on a text holding overlapping occurrences
C1_Witness ==
    /\ BmRan
    /\ Len(bmOut) >= 2
    /\ \E k \in 1..(Len(bmOut) - 1) : bmOut[k + 1] - bmOut[k] < Len(mpattern)

ExactlyOccurrences(out, text, pattern) ==
    /\ StrictlyAscending(out)
    /\ Range(out) = Occurrences(text, pattern)

\* C2: for non-empty text and pattern, each of KMP and Boyer-Moore returns
\* exactly the start offsets of lower(pattern) in lower(text), overlapping
\* ones included, strictly ascending; "ababcabab"/"ab" gives [0,2,5,7].
C2_AllOccurrencesAscending ==
    /\ (KmpRan /\ mtext # <<>> /\ mpattern # <<>>)
          => ExactlyOccurrences(kmpOut, mtext, mpattern)
    /\ (BmRan /\ mtext # <<>> /\ mpattern # <<>>)
          => ExactlyOccurrences(bmOut, mtext, mpattern)
    /\ (BmRan /\ mtext = Scenario1Text /\ mpattern = <<"a", "b">>)
          => (kmpOut = <<0, 2, 5, 7>> /\ bmOut = <<0, 2, 5, 7>>)

\* the scenario of the specification has been run through both matchers
C2_Witness ==
    /\ BmRan
    /\ mtext = Scenario1Text
    /\ mpattern = <<"a", "b">>
    /\ kmpOut = <<0, 2, 5, 7>>
    /\ bmOut = <<0, 2, 5, 7>>

\* C3: an automaton built from [p] reports for p exactly the offsets
\* KMPMatcher.search(text, p) returns, for every text and every pattern p.
C3_SingletonAhoCorasickEqualsKmp ==
    AcRan => AcOffsets(acOut, mpattern) = kmpOut

(***************************************************************************)
(* One call of SearchEngine.search                                         *)
(***************************************************************************)
K1 == <<"a", "b">>
K1Raw == <<"A", "b">>
K2 == <<"a", "b", "c", "d", "e", "f", "g">>
K2Near == <<"a", "b", "c", "d", "e", "f", "x">>

Applicant(id, kind) ==
    [detail_id |-> id, address |-> kind.address, extracted_text |-> kind.extracted_text]

Filler == [address |-> <<>>, extracted_text |-> <<"z", "z">>]
HasK1 == [address |-> <<>>, extracted_text |-> K1]
HasK2 == [address |-> <<>>, extracted_text |-> K2]
HasK2Near == [address |-> <<>>, extracted_text |-> K2Near \o <<" ", "z">>]
K1InAddress == [address |-> K1, extracted_text |-> <<"z", "z">>]
\* a word near K2 in a text that holds no keyword exactly
OnlyK2Near == [address |-> <<>>, extracted_text |-> <<"x">> \o Slice(K2, 1, Len(K2))]

\* the applicants that may hold something a keyword matches, and what
HotKinds ==
    [p \in {1, 2, 3, MinChunkSize + 1} |->
        IF p = 1 THEN {Filler, HasK1, HasK2, HasK2Near}
        ELSE IF p = MinChunkSize + 1
             THEN {Filler, HasK1, HasK2, K1InAddress, OnlyK2Near}
        ELSE {Filler, HasK1}]

Corpora ==
    {[i \in 1..NDocs |-> Applicant(i, IF i \in DOMAIN f THEN f[i] ELSE Filler)] :
        f \in {g \in [DOMAIN HotKinds -> UNION Range2(HotKinds)] :
                  /\ \A p \in DOMAIN HotKinds : g[p] \in HotKinds[p]
                  /\ g[2] = g[3]}}
    \cup {<<>>}

KeywordLists == {<<>>, <<K1Raw>>, <<K2>>, <<K1Raw, K2>>, <<K2, K2>>}

SearchInit ==
    /\ corpus \in Corpora
    /\ keywords \in KeywordLists
    /\ algorithm \in {"KMP", "BM", "AC"}
    /\ max_results \in 1..MaxResults
    /\ use_multiprocessing \in BOOLEAN
    /\ pc = "call"
    /\ probe = "none"
    /\ exactState = <<>>
    /\ fuzzyState = <<>>
    /\ exact_results = <<>>
    /\ fuzzy_results = <<>>
    /\ fuzzyKeywords = <<>>
    /\ poolError = "none"
    /\ returned = NoReturn
    /\ loaded = FALSE
    /\ failedDoc = 0
    /\ mtext = <<>>
    /\ mpattern = <<>>
    /\ mpc = "idle"
    /\ kmpOut = <<>>
    /\ bmOut = <<>>
    /\ acOut = EmptyDict
    /\ gsOut = <<>>
    /\ FuzzIdle
    /\ PureIdle

\* the parameters after validate_search_params
Kws == ValidKeywords(keywords)
Alg == ValidAlgorithm(algorithm)
MaxRes == ValidMaxResults(max_results)

\* search: the corpus is loaded only after the keyword list is found non-empty
LoadsCorpusMut(kws) == TRUE

LoadsCorpus(kws) == kws # <<>>

\* search: `except Exception as e: return self._error_result(...)`
SearchExceptMut(alg, kws) ==
    /\ pc' = "raised"
    /\ UNCHANGED returned

SearchExcept(alg, kws) ==
    /\ returned' = error_result(alg, kws)
    /\ pc' = "done"

\* search: empty keyword list or empty corpus
SearchReturnsEmpty ==
    /\ pc = "call"
    /\ Kws = <<>> \/ corpus = <<>>
    /\ returned' = empty_result(Alg, Kws)
    /\ pc' = "done"
    /\ loaded' = LoadsCorpus(Kws)
    /\ UNCHANGED <<corpus, keywords, algorithm, max_results, use_multiprocessing,
                   failedDoc,
                   probe, exactState, fuzzyState, exact_results, fuzzy_results,
                   fuzzyKeywords, poolError, matchVars, fuzzVars, pureVars>>

\* search -> _single_threaded_search
SearchSingleThreaded ==
    /\ pc = "call"
    /\ Kws # <<>> /\ corpus # <<>>
    /\ ~should_use_multiprocessing(Len(corpus), use_multiprocessing)
    /\ returned' = single_threaded_search(corpus, Kws, Alg, MaxRes)
    /\ pc' = "done"
    /\ loaded' = LoadsCorpus(Kws)
    /\ UNCHANGED <<corpus, keywords, algorithm, max_results, use_multiprocessing,
                   failedDoc,
                   probe, exactState, fuzzyState, exact_results, fuzzy_results,
                   fuzzyKeywords, poolError, matchVars, fuzzVars, pureVars>>

\* search -> _multiprocessing_search, up to the probe
SearchMultiprocessing ==
    /\ pc = "call"
    /\ Kws # <<>> /\ corpus # <<>>
    /\ should_use_multiprocessing(Len(corpus), use_multiprocessing)
    /\ pc' = "probe"
    /\ loaded' = LoadsCorpus(Kws)
    /\ UNCHANGED <<corpus, keywords, algorithm, max_results, use_multiprocessing,
                   failedDoc,
                   probe, exactState, fuzzyState, exact_results, fuzzy_results,
                   fuzzyKeywords, poolError, returned, matchVars, fuzzVars, pureVars>>

\* search: validate_search_params raises (a max_results that int() rejects,
\* a keyword whose str() raises); the arguments are reported as passed
SearchValidationRaises ==
    /\ pc = "call"
    /\ SearchExcept(algorithm, keywords)
    /\ UNCHANGED <<corpus, keywords, algorithm, max_results, use_multiprocessing,
                   loaded, failedDoc,
                   probe, exactState, fuzzyState, exact_results, fuzzy_results,
                   fuzzyKeywords, poolError, matchVars, fuzzVars, pureVars>>

\* search: _load_applicant_data raises (SessionLocal or the query fails)
SearchLoadRaises ==
    /\ pc = "call"
    /\ LoadsCorpus(Kws)
    /\ loaded' = TRUE
    /\ SearchExcept(Alg, Kws)
    /\ UNCHANGED <<corpus, keywords, algorithm, max_results, use_multiprocessing,
                   failedDoc,
                   probe, exactState, fuzzyState, exact_results, fuzzy_results,
                   fuzzyKeywords, poolError, matchVars, fuzzVars, pureVars>>

\* the applicant whose matching may raise: the first one of the corpus
Raising(applicants) == {Head(applicants).detail_id}

\* search -> _single_threaded_search -> _perform_exact_matching: reading or
\* matching one applicant raises; the loop has no handler of its own, so
\* the exception reaches the handler of search
SingleThreadedMatchingRaises ==
    /\ pc = "call"
    /\ Kws # <<>> /\ corpus # <<>>
    /\ ~should_use_multiprocessing(Len(corpus), use_multiprocessing)
    /\ \E id \in Raising(corpus) : failedDoc' = id
    /\ loaded' = LoadsCorpus(Kws)
    /\ SearchExcept(Alg, Kws)
    /\ UNCHANGED <<corpus, keywords, algorithm, max_results, use_multiprocessing,
                   probe, exactState, fuzzyState, exact_results, fuzzy_results,
                   fuzzyKeywords, poolError, matchVars, fuzzVars, pureVars>>

\* the pool hands its work items to the idle workers in submission order
RECURSIVE Schedule(_, _)
Schedule(state, num_workers) ==
    LET running == {c \in DOMAIN state : state[c] = "running"}
        pending == {c \in DOMAIN state : state[c] = "pending"}
    IN  IF pending = {} \/ Cardinality(running) >= num_workers THEN state
        ELSE LET c == CHOOSE x \in pending : \A y \in pending : x <= y
             IN  Schedule([state EXCEPT ![c] = "running"], num_workers)

Submitted == Schedule([c \in 1..Len(Chunks(corpus)) |-> "pending"], NumWorkers(corpus))

\* _can_use_multiprocessing: whether the probe result lets the pool be used
CanUseMultiprocessingMut(outcome) == TRUE

CanUseMultiprocessing(outcome) == outcome = "ok"

\* _can_use_multiprocessing returns, and the search goes on accordingly
Probe ==
    /\ pc = "probe"
    /\ \E outcome \in {"ok", "failed"} :
          /\ probe' = outcome
          /\ IF CanUseMultiprocessing(outcome)
             THEN /\ exactState' = Submitted
                  /\ pc' = "exact"
                  /\ UNCHANGED returned
             ELSE /\ returned' = single_threaded_search(corpus, Kws, Alg, MaxRes)
                  /\ pc' = "done"
                  /\ UNCHANGED exactState
    /\ UNCHANGED <<corpus, keywords, algorithm, max_results, use_multiprocessing,
                   loaded, failedDoc,
                   fuzzyState, exact_results, fuzzy_results,
                   fuzzyKeywords, poolError, matchVars, fuzzVars, pureVars>>

\* _can_use_multiprocessing: future.result(timeout=5) raises TimeoutError
\* because the probe task has not completed, whether it is slow or hung; the
\* exception leaves the with block, whose exit is executor.shutdown(wait=True)
ProbeTimesOut ==
    /\ pc = "probe"
    /\ \E task \in {"slow", "hung"} : probe' = task
    /\ pc' = "probe_shutdown"
    /\ UNCHANGED <<corpus, keywords, algorithm, max_results, use_multiprocessing,
                   loaded, failedDoc, exactState,
                   fuzzyState, exact_results, fuzzy_results,
                   fuzzyKeywords, poolError, returned, matchVars, fuzzVars, pureVars>>

\* the slow probe task completes after the timeout
ProbeTaskCompletesLate ==
    /\ pc = "probe_shutdown"
    /\ probe = "slow"
    /\ probe' = "late"
    /\ UNCHANGED <<corpus, keywords, algorithm, max_results, use_multiprocessing,
                   loaded, failedDoc, exactState, pc,
                   fuzzyState, exact_results, fuzzy_results,
                   fuzzyKeywords, poolError, returned, matchVars, fuzzVars, pureVars>>

\* shutdown(wait=True) returns once the probe task has completed
ShutdownReturns(task) == task = "late"

\* the with block is left, the handler returns False and
\* _multiprocessing_search falls back to _single_threaded_search
ProbeShutdownReturns ==
    /\ pc = "probe_shutdown"
    /\ ShutdownReturns(probe)
    /\ returned' = single_threaded_search(corpus, Kws, Alg, MaxRes)
    /\ pc' = "done"
    /\ UNCHANGED <<corpus, keywords, algorithm, max_results, use_multiprocessing,
                   loaded, failedDoc, exactState, probe,
                   fuzzyState, exact_results, fuzzy_results,
                   fuzzyKeywords, poolError, matchVars, fuzzVars, pureVars>>

Active(state) == {c \in DOMAIN state : state[c] \in {"running", "pending"}}

TaskFailures ==
    Cardinality({c \in DOMAIN exactState : exactState[c] = "failed"})
    + Cardinality({c \in DOMAIN fuzzyState : fuzzyState[c] = "failed"})

\* failures so far: failed futures and the applicant whose matching raised
Faults == TaskFailures + (IF failedDoc = 0 THEN 0 ELSE 1)

\* combine_and_rank_results, the limit and the return of _multiprocessing_search
ParallelReturn(exact, fuzzy) ==
    SearchResult(Limit(combine_and_rank_results(exact, fuzzy), MaxRes), Alg, Kws, "True")

\* what follows the exact-phase loop: keywords_for_fuzzy, then either the
\* submission of the fuzzy work items or, with none to search, the return
AfterExactLoop(exact) ==
    LET keywords_for_fuzzy == KeywordsForFuzzy(Kws, exact)
    IN  /\ exact_results' = exact
        /\ fuzzyKeywords' = keywords_for_fuzzy
        /\ IF keywords_for_fuzzy # <<>>
           THEN /\ fuzzyState' = Submitted
                /\ pc' = "fuzzy"
                /\ UNCHANGED returned
           ELSE /\ returned' = ParallelReturn(exact, <<>>)
                /\ pc' = "done"
                /\ UNCHANGED fuzzyState

\* early stopping: cancel what has not started; what runs is waited for at
\* the pool's shutdown and its result is not read
EarlyStopMut(state) ==
    [c \in DOMAIN state |->
        IF state[c] \in {"pending", "running"} THEN "cancelled" ELSE state[c]]

EarlyStop(state) ==
    [c \in DOMAIN state |->
        IF state[c] = "pending" THEN "cancelled"
        ELSE IF state[c] = "running" THEN "discarded"
        ELSE state[c]]

\* number of merged exact results at which the exact phase stops early
EarlyStopAt(maxres) == maxres * EarlyStopFactor

\* as_completed yields chunk c's future with chunk_results, which is merged
ExactTaskYields(c, chunk_results) ==
    /\ pc = "exact"
    /\ exactState[c] = "running"
    /\ LET merged == ResultUpdate(exact_results, chunk_results)
           stop == Len(merged) >= EarlyStopAt(MaxRes)
           state == IF stop THEN EarlyStop([exactState EXCEPT ![c] = "merged"])
                    ELSE Schedule([exactState EXCEPT ![c] = "merged"], NumWorkers(corpus))
       IN  /\ exactState' = state
           /\ IF Active(state) = {}
              THEN AfterExactLoop(merged)
              ELSE /\ exact_results' = merged
                   /\ UNCHANGED <<pc, fuzzyState, fuzzyKeywords, returned>>
    /\ UNCHANGED <<corpus, keywords, algorithm, max_results, use_multiprocessing,
                   loaded, probe, fuzzy_results, poolError, matchVars, fuzzVars, pureVars>>

\* the worker of chunk c matches every applicant of the chunk
ExactTaskCompletes(c) ==
    /\ ExactTaskYields(c, process_chunk_exact(Chunks(corpus)[c], Kws, Alg))
    /\ UNCHANGED failedDoc

\* _process_chunk_exact: one applicant of chunk c raises inside the worker;
\* the handler around the whole loop returns {} for the chunk
ExactWorkerRaises(c) ==
    /\ Faults = 0
    /\ c \in DOMAIN Chunks(corpus)
    /\ \E id \in Raising(corpus) \cap Ids(Chunks(corpus)[c]) : failedDoc' = id
    /\ ExactTaskYields(c, <<>>)

\* future.result() of chunk c raises: the chunk is logged and left out
ExactTaskFails(c) ==
    /\ pc = "exact"
    /\ exactState[c] = "running"
    /\ failedDoc = 0
    /\ TaskFailures < MaxTaskFailures
    /\ LET state == Schedule([exactState EXCEPT ![c] = "failed"], NumWorkers(corpus))
       IN  /\ exactState' = state
           /\ IF Active(state) = {}
              THEN AfterExactLoop(exact_results)
              ELSE UNCHANGED <<pc, fuzzyState, fuzzyKeywords, returned, exact_results>>
    /\ UNCHANGED <<corpus, keywords, algorithm, max_results, use_multiprocessing,
                   loaded, failedDoc,
                   probe, fuzzy_results, poolError, matchVars, fuzzVars, pureVars>>

\* the pool itself raises in the exact phase: single-threaded fallback
ExactPoolFails ==
    /\ pc = "exact"
    /\ poolError' = "exact"
    /\ returned' = single_threaded_search(corpus, Kws, Alg, MaxRes)
    /\ pc' = "done"
    /\ UNCHANGED <<corpus, keywords, algorithm, max_results, use_multiprocessing,
                   loaded, failedDoc,
                   probe, exactState, fuzzyState, exact_results, fuzzy_results,
                   fuzzyKeywords, matchVars, fuzzVars, pureVars>>

\* as_completed yields chunk c's fuzzy future; its result is merged
FuzzyTaskCompletes(c) ==
    /\ pc = "fuzzy"
    /\ fuzzyState[c] = "running"
    /\ LET merged == ResultUpdate(fuzzy_results,
                         process_chunk_fuzzy_dynamic(Chunks(corpus)[c], fuzzyKeywords,
                                                     DynamicThresholds(Kws)))
           state == Schedule([fuzzyState EXCEPT ![c] = "merged"], NumWorkers(corpus))
       IN  /\ fuzzyState' = state
           /\ fuzzy_results' = merged
           /\ IF Active(state) = {}
              THEN /\ returned' = ParallelReturn(exact_results, merged)
                   /\ pc' = "done"
              ELSE UNCHANGED <<pc, returned>>
    /\ UNCHANGED <<corpus, keywords, algorithm, max_results, use_multiprocessing,
                   loaded, failedDoc,
                   probe, exactState, exact_results, fuzzyKeywords, poolError,
                   matchVars, fuzzVars, pureVars>>

\* future.result() of chunk c's fuzzy future raises
FuzzyTaskFails(c) ==
    /\ pc = "fuzzy"
    /\ fuzzyState[c] = "running"
    /\ failedDoc = 0
    /\ TaskFailures < MaxTaskFailures
    /\ LET state == Schedule([fuzzyState EXCEPT ![c] = "failed"], NumWorkers(corpus))
       IN  /\ fuzzyState' = state
           /\ IF Active(state) = {}
              THEN /\ returned' = ParallelReturn(exact_results, fuzzy_results)
                   /\ pc' = "done"
              ELSE UNCHANGED <<pc, returned>>
    /\ UNCHANGED <<corpus, keywords, algorithm, max_results, use_multiprocessing,
                   loaded, failedDoc,
                   probe, exactState, exact_results, fuzzy_results, fuzzyKeywords,
                   poolError, matchVars, fuzzVars, pureVars>>

\* the pool itself raises in the fuzzy phase: fuzzy matching is skipped and
\* the search returns with what was merged so far
FuzzyPoolFails ==
    /\ pc = "fuzzy"
    /\ poolError' = "fuzzy"
    /\ returned' = ParallelReturn(exact_results, fuzzy_results)
    /\ pc' = "done"
    /\ UNCHANGED <<corpus, keywords, algorithm, max_results, use_multiprocessing,
                   loaded, failedDoc,
                   probe, exactState, fuzzyState, exact_results, fuzzy_results,
                   fuzzyKeywords, matchVars, fuzzVars, pureVars>>

SearchNext ==
    \/ SearchReturnsEmpty
    \/ SearchSingleThreaded
    \/ SearchMultiprocessing
    \/ SearchValidationRaises
    \/ SearchLoadRaises
    \/ SingleThreadedMatchingRaises
    \/ Probe
    \/ ProbeTimesOut
    \/ ProbeTaskCompletesLate
    \/ ProbeShutdownReturns
    \/ \E c \in DOMAIN exactState : ExactTaskCompletes(c)
    \/ \E c \in DOMAIN exactState : ExactWorkerRaises(c)
    \/ \E c \in DOMAIN exactState : ExactTaskFails(c)
    \/ ExactPoolFails
    \/ \E c \in DOMAIN fuzzyState : FuzzyTaskCompletes(c)
    \/ \E c \in DOMAIN fuzzyState : FuzzyTaskFails(c)
    \/ FuzzyPoolFails

SearchSpec == SearchInit /\ [][SearchNext]_vars

(***************************************************************************)
(* Fuzzy harness: FuzzyMatcher applied to two strings                      *)
(***************************************************************************)
FuzzAlphabet == {"a", "b"}

FuzzWords == StringsUpTo(FuzzAlphabet, MaxWordLen)

Kitten == <<"k", "i", "t", "t", "e", "n">>

Sitting == <<"s", "i", "t", "t", "i", "n", "g">>

FuzzPairs == (FuzzWords \X FuzzWords) \cup {<<Kitten, Sitting>>, <<Sitting, Kitten>>}

MatchIdle ==
    /\ mtext = <<>>
    /\ mpattern = <<>>
    /\ mpc = "idle"
    /\ kmpOut = <<>>
    /\ bmOut = <<>>
    /\ acOut = EmptyDict
    /\ gsOut = <<>>

FuzzInit ==
    /\ \E pair \in FuzzPairs : fuzzS1 = pair[1] /\ fuzzS2 = pair[2]
    /\ fuzzPc = "distance"
    /\ fuzzDistance = 0
    /\ fuzzReverse = 0
    /\ fuzzSimilarity = 0
    /\ MatchIdle
    /\ SearchIdle
    /\ PureIdle

\* FuzzyMatcher()._edit_distance, with the arguments in both orders
RunEditDistance ==
    /\ fuzzPc = "distance"
    /\ fuzzDistance' = edit_distance(fuzzS1, fuzzS2)
    /\ fuzzReverse' = edit_distance(fuzzS2, fuzzS1)
    /\ fuzzPc' = "similarity"
    /\ UNCHANGED <<fuzzS1, fuzzS2, fuzzSimilarity, matchVars, searchVars, pureVars>>

\* FuzzyMatcher().similarity_ratio
RunSimilarityRatio ==
    /\ fuzzPc = "similarity"
    /\ fuzzSimilarity' = similarity_ratio(fuzzS1, fuzzS2)
    /\ fuzzPc' = "done"
    /\ UNCHANGED <<fuzzS1, fuzzS2, fuzzDistance, fuzzReverse, matchVars, searchVars, pureVars>>

FuzzNext == RunEditDistance \/ RunSimilarityRatio

FuzzSpec == FuzzInit /\ [][FuzzNext]_vars

(***************************************************************************)
(* Threshold harness: calculate_dynamic_threshold applied to two terms     *)
(***************************************************************************)
Repeat(c, n) == [k \in 1..n |-> c]

\* terms of every length up to MaxTermLen, bare or with a blank around them
ThrTerms ==
    {pad \o Repeat("a", n) \o pad : n \in 0..MaxTermLen, pad \in {<<>>, <<" ">>}}

ThrInit ==
    /\ thrTerm1 \in ThrTerms
    /\ thrTerm2 \in ThrTerms
    /\ thrPc = "call"
    /\ thrOut1 = 0
    /\ thrOut2 = 0
    /\ MatchIdle
    /\ SearchIdle
    /\ FuzzIdle
    /\ ChkIdle
    /\ SubIdle
    /\ HelperIdle

RunDynamicThreshold ==
    /\ thrPc = "call"
    /\ thrOut1' = calculate_dynamic_threshold(thrTerm1)
    /\ thrOut2' = calculate_dynamic_threshold(thrTerm2)
    /\ thrPc' = "done"
    /\ UNCHANGED <<thrTerm1, thrTerm2, matchVars, searchVars, fuzzVars, chkVars, subVars, helperVars>>

ThrNext == RunDynamicThreshold

ThrSpec == ThrInit /\ [][ThrNext]_vars

(***************************************************************************)
(* Chunking harness: the split of _multiprocessing_search applied to a     *)
(* corpus of a given size on a machine with a given number of CPUs         *)
(***************************************************************************)
\* corpus sizes: every size up to MaxTotal, and two sizes that reach the
\* upper limit of the chunk size
ChunkTotals == 0..MaxTotal \cup {MaxChunkSize + 1, 2 * MaxChunkSize + MaxTotal}

ChkInit ==
    /\ \E total \in ChunkTotals : chkCorpus = [i \in 1..total |-> i]
    /\ chkCpu \in 1..MaxCpus
    /\ chkPc = "call"
    /\ chkSize = 0
    /\ chkChunks = <<>>
    /\ MatchIdle
    /\ SearchIdle
    /\ FuzzIdle
    /\ ThrIdle
    /\ SubIdle
    /\ HelperIdle

\* num_workers and chunk_size of _multiprocessing_search
RunChunkSize ==
    /\ chkPc = "call"
    /\ chkSize' = calculate_optimal_chunk_size(Len(chkCorpus),
                                               num_workers_of(chkCpu, Len(chkCorpus)))
    /\ chkPc' = "split"
    /\ UNCHANGED <<chkCorpus, chkCpu, chkChunks, matchVars, searchVars, fuzzVars, thrVars, subVars, helperVars>>

\* for i in range(0, len(applicant_dicts), chunk_size): chunks.append(...)
RunSplit ==
    /\ chkPc = "split"
    /\ chkChunks' = ChunksFrom(chkCorpus, chkSize, 0)
    /\ chkPc' = "done"
    /\ UNCHANGED <<chkCorpus, chkCpu, chkSize, matchVars, searchVars, fuzzVars, thrVars, subVars, helperVars>>

ChkNext == RunChunkSize \/ RunSplit

ChkSpec == ChkInit /\ [][ChkNext]_vars

(***************************************************************************)
(* Substring harness: substring_similarity and _sliding_window_similarity  *)
(* applied to a query and a text                                           *)
(***************************************************************************)
LongWord == <<"a", "b", "c", "d", "e", "f", "g", "h", "i", "j">>

\* word with "x" at the positions of at
Mistyped(word, at) == [k \in 1..Len(word) |-> IF k \in at THEN "x" ELSE word[k]]

\* LongWord with at most MaxTypos mistyped characters
TypoTexts ==
    {Mistyped(LongWord, at) :
        at \in {ps \in SUBSET (1..Len(LongWord)) : Cardinality(ps) <= MaxTypos}}

WordQueries == {LongWord, DropLast(LongWord, 1)}

Abcdef == <<"a", "b", "c", "d", "e", "f">>

Abcdex == <<"a", "b", "c", "d", "e", "x">>

PhraseParts ==
    {<<Abcdef, <<"b">>, <<"c">>>>, <<Abcdex, <<"b">>, <<"c">>>>,
     <<Abcdex, <<"b">>, <<"x">>>>, <<<<"z">>>>}

\* texts of one or two parts, and one whose second part has a double blank
PhraseTexts ==
    {JoinSpace(part) : part \in PhraseParts}
    \cup {JoinSpace(p1 \o p2) : p1 \in PhraseParts, p2 \in PhraseParts}
    \cup {JoinSpace(<<Abcdex, <<"b">>, <<"c">>, Abcdef>>) \o <<" ", " ">>
              \o JoinSpace(<<<<"b">>, <<"c">>>>)}

PhraseQueries == {JoinSpace(<<Abcdef, <<"b">>, <<"c">>>>), JoinSpace(<<Abcdef, <<"b">>>>)}

SubPairs == (WordQueries \X TypoTexts) \cup (PhraseQueries \X PhraseTexts)

SubInit ==
    /\ \E pair \in SubPairs : subQuery = pair[1] /\ subText = pair[2]
    /\ subPc = "call"
    /\ subOut = 0
    /\ slideOut = 0
    /\ MatchIdle
    /\ SearchIdle
    /\ FuzzIdle
    /\ ThrIdle
    /\ ChkIdle
    /\ HelperIdle

\* FuzzyMatcher().substring_similarity(query, text)
RunSubstringSimilarity ==
    /\ subPc = "call"
    /\ subOut' = substring_similarity(subQuery, subText)
    /\ subPc' = "slide"
    /\ UNCHANGED <<subQuery, subText, slideOut, matchVars, searchVars, fuzzVars,
                   thrVars, chkVars, helperVars>>

\* FuzzyMatcher()._sliding_window_similarity(query, text, query.split(), text.split())
RunSlidingWindow ==
    /\ subPc = "slide"
    /\ slideOut' = sliding_window_similarity(subQuery, subText,
                                             Split(subQuery), Split(subText))
    /\ subPc' = "done"
    /\ UNCHANGED <<subQuery, subText, subOut, matchVars, searchVars, fuzzVars,
                   thrVars, chkVars, helperVars>>

SubNext == RunSubstringSimilarity \/ RunSlidingWindow

SubSpec == SubInit /\ [][SubNext]_vars

(***************************************************************************)
(* Exact-phase harness: the exact matching of one document text for one    *)
(* keyword list, by each of the three algorithms                           *)
(***************************************************************************)
\* keywords as validate_search_params returns them: stripped, lower-cased,
\* non-empty; among them prefixes, suffixes and substrings of one another
ExWords ==
    {<<"a">>, <<"b">>, <<"a", "a">>, <<"a", "b">>, <<"b", "a">>,
     <<"a", "a", "b">>, <<"b", "a", "b">>, <<"a", "b", "a", "b">>}

\* the lists of up to n distinct words
RECURSIVE DistinctLists(_, _)
DistinctLists(words, n) ==
    IF n = 0 THEN {<<>>}
    ELSE LET shorter == DistinctLists(words, n - 1)
         IN  shorter \cup {Append(w[1], w[2]) :
                             w \in {x \in shorter \X words :
                                       Len(x[1]) = n - 1 /\ x[2] \notin Range(x[1])}}

\* one to MaxKeywords distinct keywords, and two lists of three
ExKeywordLists ==
    (DistinctLists(ExWords, MaxKeywords) \ {<<>>})
        \cup {<<<<"a">>, <<"a", "b">>, <<"b", "a", "b">>>>,
              <<<<"a", "b", "a", "b">>, <<"b", "a">>, <<"b">>>>}

ExTexts ==
    StringsUpTo({"a", "b"}, MaxTextLen) \cup {<<"A", "b", "A", "B">>}

ExInit ==
    /\ exKeywords \in ExKeywordLists
    /\ exText \in ExTexts
    /\ exPc = "ac"
    /\ exAc = NoCounts
    /\ exKmp = NoCounts
    /\ exBm = NoCounts
    /\ MatchIdle
    /\ SearchIdle
    /\ FuzzIdle
    /\ ThrIdle
    /\ ChkIdle
    /\ SubIdle
    /\ CmbIdle

\* the body of the applicant loop of _aho_corasick_search
RunAutomaton ==
    /\ exPc = "ac"
    /\ exAc' = ExactMatchText("AC", exText, exKeywords)
    /\ exPc' = "kmp"
    /\ UNCHANGED <<exKeywords, exText, exKmp, exBm, matchVars, searchVars, fuzzVars,
                   thrVars, chkVars, subVars, cmbVars>>

\* the body of the applicant loop of _perform_exact_matching, algorithm "KMP"
RunKmpPerKeyword ==
    /\ exPc = "kmp"
    /\ exKmp' = ExactMatchText("KMP", exText, exKeywords)
    /\ exPc' = "bm"
    /\ UNCHANGED <<exKeywords, exText, exAc, exBm, matchVars, searchVars, fuzzVars,
                   thrVars, chkVars, subVars, cmbVars>>

\* the body of the applicant loop of _perform_exact_matching, algorithm "BM"
RunBmPerKeyword ==
    /\ exPc = "bm"
    /\ exBm' = ExactMatchText("BM", exText, exKeywords)
    /\ exPc' = "done"
    /\ UNCHANGED <<exKeywords, exText, exAc, exKmp, matchVars, searchVars, fuzzVars,
                   thrVars, chkVars, subVars, cmbVars>>

ExNext == RunAutomaton \/ RunKmpPerKeyword \/ RunBmPerKeyword

ExSpec == ExInit /\ [][ExNext]_vars

(***************************************************************************)
(* Combine harness: combine_and_rank_results applied to an exact_results   *)
(* and a fuzzy_results dict                                                *)
(***************************************************************************)
\* entries as the exact phase builds them
CmbExactEntries ==
    {ExactResult([detail_id |-> id], DictSet(EmptyDict, K1, n), n) :
        id \in 1..MaxIds, n \in {1, 2}}

\* entries as the fuzzy phase builds them
CmbFuzzyEntries ==
    {FuzzyResult([detail_id |-> id],
                 DictSet(EmptyDict, K2,
                         [matched_word |-> {K2Near}, similarity |-> similarity]),
                 similarity) :
        id \in 1..MaxIds, similarity \in {Pct(85), SimScale - SimScale \div 7}}

\* a dict holds each applicant id once
ResultDicts(entries) ==
    {results \in DistinctLists(entries, MaxIds) :
        Cardinality(Ids(results)) = Len(results)}

CmbInit ==
    /\ cmbExact \in ResultDicts(CmbExactEntries)
    /\ cmbFuzzy \in ResultDicts(CmbFuzzyEntries)
    /\ cmbPc = "call"
    /\ cmbExactAfter = <<>>
    /\ cmbFuzzyAfter = <<>>
    /\ cmbOut = <<>>
    /\ MatchIdle
    /\ SearchIdle
    /\ FuzzIdle
    /\ ThrIdle
    /\ ChkIdle
    /\ SubIdle
    /\ ExIdle

\* combine_and_rank_results(exact_results, fuzzy_results)
RunCombine ==
    /\ cmbPc = "call"
    /\ LET call == combine_and_rank_results_shared(cmbExact, cmbFuzzy)
       IN  /\ cmbOut' = call.results
           /\ cmbExactAfter' = call.exact_results
           /\ cmbFuzzyAfter' = call.fuzzy_results
    /\ cmbPc' = "done"
    /\ UNCHANGED <<cmbExact, cmbFuzzy, matchVars, searchVars, fuzzVars,
                   thrVars, chkVars, subVars, exVars>>

CmbNext == RunCombine

CmbSpec == CmbInit /\ [][CmbNext]_vars

(***************************************************************************)
(* Properties of a search                                                  *)
(***************************************************************************)
Done == pc = "done"

Results == returned.results

\* keyword kw occurs in the text of the applicant, under the projection of
\* the main process and under that of the workers
OccursIn(applicant, kw) ==
    /\ Occurrences(get_searchable_text(applicant), kw) # {}
    /\ Occurrences(get_searchable_text_worker(applicant), kw) # {}

OccursInCorpus(kw) == \E i \in 1..Len(corpus) : OccursIn(corpus[i], kw)

\* C4: a keyword with an exact occurrence in some document of the corpus is
\* never fuzzy-searched: it is not among the keywords handed to the fuzzy
\* workers, and no returned result holds it in its fuzzy match set.
C4_ExactKeywordNeverFuzzy ==
    /\ \A k \in 1..Len(fuzzyKeywords) : ~OccursInCorpus(fuzzyKeywords[k])
    /\ Done => \A i \in 1..Len(Results) :
                  \A kw \in DOMAIN Results[i].fuzzy_matches : ~OccursInCorpus(kw)

RECURSIVE ExactPhaseInOrder(_, _, _)
ExactPhaseInOrder(order, k, merged) ==
    IF k > Len(order) THEN merged
    ELSE LET m == ResultUpdate(merged,
                      process_chunk_exact(Chunks(corpus)[order[k]], Kws, Alg))
         IN  IF Len(m) >= EarlyStopAt(MaxRes) THEN m
             ELSE ExactPhaseInOrder(order, k + 1, m)

RECURSIVE FuzzyPhaseInOrder(_, _, _, _)
FuzzyPhaseInOrder(order, kws, k, merged) ==
    IF k > Len(order) THEN merged
    ELSE FuzzyPhaseInOrder(order, kws, k + 1,
             ResultUpdate(merged,
                 process_chunk_fuzzy_dynamic(Chunks(corpus)[order[k]], kws,
                                             DynamicThresholds(Kws))))

\* what the parallel search returns when every future succeeds and the
\* futures complete in the order they were submitted
ParallelInSubmissionOrder ==
    LET order == [c \in 1..Len(Chunks(corpus)) |-> c]
        exact == ExactPhaseInOrder(order, 1, <<>>)
        kff == KeywordsForFuzzy(Kws, exact)
        fuzzy == IF kff = <<>> THEN <<>> ELSE FuzzyPhaseInOrder(order, kff, 1, <<>>)
    IN  ParallelReturn(exact, fuzzy)

\* the parallel path ran to its end with no failed future and no pool error
CleanParallelRun ==
    /\ Done
    /\ returned.multiprocessing_used = "True"
    /\ poolError = "none"
    /\ Faults = 0

\* C6: the result list of the parallel search is the same for every order in
\* which the chunk workers complete (so it is the list of the run in which
\* they complete in submission order).
C6_CompletionOrderIrrelevant ==
    CleanParallelRun => Results = ParallelInSubmissionOrder.results

SingleThreadedResults == single_threaded_search(corpus, Kws, Alg, MaxRes).results

\* C7: when the worker-pool probe fails, search returns exactly the ranked
\* results of the single-threaded path.
C7_ProbeFailureFallsBack ==
    (Done /\ probe = "failed") => Results = SingleThreadedResults

\* a parallel search whose probe failed returned exact and fuzzy matches
C7_Witness ==
    /\ Done
    /\ probe = "failed"
    /\ \E i \in 1..Len(Results) : DOMAIN Results[i].exact_matches # {}
    /\ \E i \in 1..Len(Results) : DOMAIN Results[i].fuzzy_matches # {}

\* C8: if the worker pool raises in the exact or in the fuzzy phase, the
\* search returns the results of the single-threaded path.
C8_PoolErrorFallsBack ==
    (Done /\ poolError # "none") => Results = SingleThreadedResults

SumOfCounts(exact_matches) == SumOver(exact_matches, DOMAIN exact_matches)

SumOfSimilarities(fuzzy_matches) ==
    SumOver([kw \in DOMAIN fuzzy_matches |-> fuzzy_matches[kw].similarity],
            DOMAIN fuzzy_matches)

\* C9: overall_score of every returned result is the sum of the counts of its
\* exact match set plus the sum of the similarities of its fuzzy match set
\* (scores and similarities in units of 1 / SimScale).
C9_ScoreIsSumOfEvidence ==
    Done => \A i \in 1..Len(Results) :
               Results[i].overall_score =
                   SumOfCounts(Results[i].exact_matches) * SimScale
                   + SumOfSimilarities(Results[i].fuzzy_matches)

\* C10: in the returned list a result placed before another has a score at
\* least as high.
C10_RankedByScore ==
    Done => \A i, j \in 1..Len(Results) :
               i < j => Results[i].overall_score >= Results[j].overall_score

\* a returned list whose scores differ, one of them a fuzzy score
C10_Witness ==
    /\ Done
    /\ Len(Results) >= 2
    /\ Results[1].overall_score > Results[Len(Results)].overall_score
    /\ \E i \in 1..Len(Results) : DOMAIN Results[i].fuzzy_matches # {}

\* every document of the corpus that matches, ranked: the exact and fuzzy
\* phases over the whole corpus, combined, without the limit
AllMatchingDocuments ==
    LET exact == perform_exact_matching(corpus, Kws, Alg)
        fuzzy == perform_fuzzy_matching(corpus, Kws, DynamicThresholds(Kws), exact)
    IN  combine_and_rank_results(exact, fuzzy)

\* C11: the returned list is the top max_results of all matching documents:
\* it has min(max_results, N) entries, N the number of matching documents,
\* and no matching document left out scores strictly higher than one that
\* is included (a search that returned without an error).
C11_TopMaxResults ==
    (Done /\ Kws # <<>> /\ returned.error = "absent") =>
        LET all == AllMatchingDocuments
        IN  /\ Len(Results) = Min2(MaxRes, Len(all))
            /\ \A d \in Range(all) : \A r \in Range(Results) :
                   d.detail_id \notin Ids(Results)
                       => ~(d.overall_score > r.overall_score)

\* the entry has a non-empty exact match set or a non-empty fuzzy match set,
\* and every count of its exact match set is at least 1
HasEvidence(entry) ==
    /\ DOMAIN entry.exact_matches # {} \/ DOMAIN entry.fuzzy_matches # {}
    /\ \A kw \in DOMAIN entry.exact_matches : entry.exact_matches[kw] >= 1

AllHaveEvidence(results) == \A entry \in Range(results) : HasEvidence(entry)

\* C12: every entry of the exact results, of the fuzzy results and of the
\* final ranked list has evidence, on the single-threaded path (its two
\* phases over the corpus of the call) and on the parallel path (the merged
\* worker results).
C12_ResultsHaveEvidence ==
    /\ AllHaveEvidence(exact_results)
    /\ AllHaveEvidence(fuzzy_results)
    /\ AllHaveEvidence(Results)
    /\ pc = "call" =>
          LET exact == perform_exact_matching(corpus, Kws, Alg)
          IN  /\ AllHaveEvidence(exact)
              /\ AllHaveEvidence(perform_fuzzy_matching(corpus, Kws,
                                     DynamicThresholds(Kws), exact))

\* a parallel search merged exact and fuzzy worker results and returned
\* entries of both kinds
C12_Witness ==
    /\ Done
    /\ exact_results # <<>>
    /\ fuzzy_results # <<>>
    /\ \E r \in Range(Results) : DOMAIN r.exact_matches # {}
    /\ \E r \in Range(Results) : DOMAIN r.exact_matches = {}

\* C13: search never propagates an exception: whatever is raised while
\* validating, loading or matching, control reaches the return of a result
\* record that carries a results list, empty when the record reports an error.
C13_SearchNeverRaises ==
    /\ pc \in {"idle", "call", "probe", "probe_shutdown", "exact", "fuzzy", "done"}
    /\ Done =>
          /\ returned # NoReturn
          /\ DOMAIN returned.results = 1..Len(returned.results)
          /\ returned.error # "absent" => returned.results = <<>>

\* the matching of one applicant raised and search returned an error record
C13_Witness ==
    /\ Done
    /\ failedDoc # 0
    /\ returned.error # "absent"
    /\ returned.results = <<>>

\* the applicants other than the one whose detail_id is id
Without(applicants, id) == SelectSeq(applicants, LAMBDA a : a.detail_id # id)

\* C14: when the matching of a single document raises, only that document
\* is excluded: the search returns what it returns for the corpus without
\* it, and on the parallel path every other document of a merged chunk that
\* matches exactly is among the exact results.
C14_OnlyFailedDocExcluded ==
    (Done /\ failedDoc # 0) =>
        IF probe = "none"
        THEN Results = single_threaded_search(Without(corpus, failedDoc),
                                              Kws, Alg, MaxRes).results
        ELSE \A c \in DOMAIN exactState :
                exactState[c] = "merged" =>
                    Ids(process_chunk_exact(Without(Chunks(corpus)[c], failedDoc),
                                            Kws, Alg))
                        \subseteq Ids(exact_results)

\* C15: a work item whose future failed is retried sequentially, so when the
\* parallel search returns, the exact matches of every failed chunk are among
\* the merged exact results.
C15_FailedChunkRetried ==
    (Done /\ returned.multiprocessing_used = "True") =>
        \A c \in DOMAIN exactState :
            exactState[c] = "failed" =>
                Ids(process_chunk_exact(Chunks(corpus)[c], Kws, Alg))
                    \subseteq Ids(exact_results)

\* C16: an empty keyword list yields an empty result at once: the search
\* goes from the call straight to its return, the returned list is empty,
\* the corpus is never loaded (so no matcher has an applicant to run on),
\* and no worker pool is probed or created.
C16_EmptyKeywordsReturnAtOnce ==
    Kws = <<>> =>
        /\ pc \in {"call", "done"}
        /\ ~loaded
        /\ probe = "none"
        /\ exactState = <<>> /\ fuzzyState = <<>>
        /\ exact_results = <<>> /\ fuzzy_results = <<>>
        /\ Done => Results = <<>>

\* a search with an empty keyword list over a non-empty corpus has returned
\* the empty result
C16_Witness ==
    /\ Done
    /\ Kws = <<>>
    /\ corpus # <<>>
    /\ returned = empty_result(Alg, <<>>)
    /\ ~loaded

\* C17: every keyword of the normalised list is trimmed, lower-cased and
\* non-empty, and no keyword occurs in the list twice.
C17_KeywordsNormalized ==
    /\ \A i \in DOMAIN Kws :
          /\ Kws[i] # <<>>
          /\ Strip(Kws[i]) = Kws[i]
          /\ Lower(Kws[i]) = Kws[i]
    /\ \A i, j \in DOMAIN Kws : i # j => Kws[i] # Kws[j]

\* C18: with an empty pattern or an empty text every exact matcher reports
\* nothing: KMP and Boyer-Moore return the empty list, and the automaton
\* built from the pattern reports no occurrence of it.
C18_EmptyInputsYieldNothing ==
    (mpattern = <<>> \/ mtext = <<>>) =>
        /\ KmpRan => kmpOut = <<>>
        /\ BmRan => bmOut = <<>>
        /\ AcRan => AcOffsets(acOut, mpattern) = <<>>

(***************************************************************************)
(* Properties of the fuzzy matcher                                         *)
(***************************************************************************)
DistanceRan == fuzzPc \in {"similarity", "done"}

SimilarityRan == fuzzPc = "done"

\* s without its character at position i (1-based)
DropChar(s, i) == [k \in 1..(Len(s) - 1) |-> IF k < i THEN s[k] ELSE s[k + 1]]

\* t results from s by one insertion, one deletion or one substitution
OneEdit(s, t) ==
    \/ /\ Len(t) = Len(s)
       /\ Cardinality({k \in 1..Len(s) : s[k] # t[k]}) = 1
    \/ /\ Len(t) = Len(s) + 1
       /\ \E i \in 1..Len(t) : DropChar(t, i) = s
    \/ /\ Len(s) = Len(t) + 1
       /\ \E i \in 1..Len(s) : DropChar(s, i) = t

\* the words reached from s by at most k edits that stay within FuzzWords
\* (a shortest edit script that deletes and substitutes before it inserts
\* never passes a string longer than the longer of its two ends)
RECURSIVE WithinEdits(_, _)
WithinEdits(s, k) ==
    IF k = 0 THEN {s}
    ELSE LET near == WithinEdits(s, k - 1)
         IN  near \cup {t \in FuzzWords : \E u \in near : OneEdit(u, t)}

\* the Levenshtein distance: the least number of single-character edits
Levenshtein(a, b) ==
    CHOOSE k \in 0..(2 * MaxWordLen) :
        /\ b \in WithinEdits(a, k)
        /\ \A h \in 0..(k - 1) : b \notin WithinEdits(a, h)

\* C19: _edit_distance(a, b) is the Levenshtein distance of a and b, the
\* minimum number of single-character insertions, deletions and
\* substitutions turning a into b; it is 3 for "kitten" and "sitting".
C19_EditDistanceIsLevenshtein ==
    DistanceRan =>
        /\ (fuzzS1 \in FuzzWords /\ fuzzS2 \in FuzzWords)
              => fuzzDistance = Levenshtein(fuzzS1, fuzzS2)
        /\ (fuzzS1 = Kitten /\ fuzzS2 = Sitting) => fuzzDistance = 3

\* the distance of two different words that needs an insertion as well as
\* a substitution has been computed
C19_Witness ==
    /\ DistanceRan
    /\ fuzzS1 = <<"a", "b">>
    /\ fuzzS2 = <<"b", "b", "a">>
    /\ fuzzDistance = 2
    /\ Levenshtein(fuzzS1, fuzzS2) = 2

\* C20: the edit distance of a string to itself is 0, the distance is the
\* same in both argument orders and at most the length of the longer
\* string; the similarity lies in [0, 1] and is 1 for two equal non-empty
\* strings (similarities are scaled by SimScale).
C20_BoundedSymmetricMeasure ==
    /\ DistanceRan =>
          /\ fuzzS1 = fuzzS2 => fuzzDistance = 0
          /\ fuzzDistance = fuzzReverse
          /\ 0 <= fuzzDistance
          /\ fuzzDistance <= Max2(Len(fuzzS1), Len(fuzzS2))
    /\ SimilarityRan =>
          /\ 0 <= fuzzSimilarity /\ fuzzSimilarity <= SimScale
          /\ (fuzzS1 = fuzzS2 /\ fuzzS1 # <<>>) => fuzzSimilarity = SimScale

\* distance and similarity of two words of different lengths, neither a
\* copy of the other, have been computed
C20_Witness ==
    /\ SimilarityRan
    /\ fuzzS1 = Kitten
    /\ fuzzS2 = Sitting
    /\ fuzzDistance = 3
    /\ fuzzReverse = 3
    /\ fuzzSimilarity = (4 * SimScale) \div 7

(***************************************************************************)
(* Properties of the dynamic threshold                                     *)
(***************************************************************************)
ThresholdRan == thrPc = "done"

\* the stated step function of the length L, in hundredths
StatedThreshold(L) ==
    IF L <= 3 THEN 100
    ELSE IF L <= 5 THEN 95
    ELSE IF L <= 8 THEN 85
    ELSE IF L <= 12 THEN 80
    ELSE 70

\* the length of a keyword: that of the term without the blanks around it
TermLength(term) == Len(Strip(term))

\* C21: calculate_dynamic_threshold is the stated step function of the
\* keyword length L (1.0 for L <= 3, 0.95 for L <= 5, 0.85 for L <= 8,
\* 0.80 for L <= 12, 0.70 beyond), hence non-increasing in L.
C21_ThresholdStepFunction ==
    ThresholdRan =>
        /\ 100 * thrOut1 = StatedThreshold(TermLength(thrTerm1)) * SimScale
        /\ 100 * thrOut2 = StatedThreshold(TermLength(thrTerm2)) * SimScale
        /\ TermLength(thrTerm1) <= TermLength(thrTerm2) => thrOut1 >= thrOut2

\* the thresholds of a term of the second band and of one beyond the last
\* band limit have been computed
C21_Witness ==
    /\ ThresholdRan
    /\ Len(thrTerm1) = 4 /\ TermLength(thrTerm1) = 4
    /\ TermLength(thrTerm2) = 13
    /\ 100 * thrOut1 = 95 * SimScale
    /\ 100 * thrOut2 = 70 * SimScale

(***************************************************************************)
(* Properties of the early stop of the exact phase                         *)
(***************************************************************************)
\* the chunks whose exact-phase future is in state st
ChunksIn(state, st) == {c \in DOMAIN state : state[c] = st}

\* C22: in the exact phase a work unit is cancelled only in a step that
\* brings the merged exact results to 3 * max_results or more, and only if
\* it has not started; a unit in flight is never cancelled: it stays in
\* flight, or it has run to completion (merged, failed, or completed with
\* its result left unread after the stop).
C22_CooperativeCancellation ==
    [][\A c \in DOMAIN exactState \cap DOMAIN exactState' :
          /\ (exactState'[c] = "cancelled" /\ exactState[c] # "cancelled")
                => /\ exactState[c] = "pending"
                   /\ Len(exact_results') >= 3 * MaxRes
          /\ exactState[c] = "running"
                => exactState'[c] \in {"running", "merged", "failed", "discarded"}
          /\ (exactState'[c] = "discarded" /\ exactState[c] # "discarded")
                => /\ exactState[c] = "running"
                   /\ Len(exact_results') >= 3 * MaxRes]_vars

\* the exact phase stopped early: a unit that had not started was cancelled
\* while another one was in flight and ran to completion
C22_Witness ==
    /\ ChunksIn(exactState, "cancelled") # {}
    /\ ChunksIn(exactState, "discarded") # {}
    /\ ChunksIn(exactState, "merged") # {}
    /\ Len(exact_results) >= 3 * MaxRes

(***************************************************************************)
(* Properties of the probe                                                 *)
(***************************************************************************)
\* C23: the probe always terminates: while the search is in the probe it
\* can take a step, also when the probe task never completes (after the
\* timeout either the task can still complete or the shutdown returns), and
\* after a probe that timed out the search returns the single-threaded
\* results.
C23_ProbeTerminates ==
    /\ pc = "probe" => ENABLED (Probe \/ ProbeTimesOut)
    /\ pc = "probe_shutdown" => (ENABLED ProbeTaskCompletesLate) \/ ShutdownReturns(probe)
    /\ (Done /\ probe \in {"slow", "late", "hung"}) => Results = SingleThreadedResults

(***************************************************************************)
(* Properties of the chunking                                              *)
(***************************************************************************)
SplitRan == chkPc = "done"

RECURSIVE Flatten(_)
Flatten(seqs) == IF seqs = <<>> THEN <<>> ELSE Head(seqs) \o Flatten(Tail(seqs))

\* clamp(x, 5, 100)
Clamp(x) == Max2(5, Min2(100, x))

\* C24: the chunks are contiguous and cover every document exactly once
\* (their concatenation in order is the corpus); every chunk but the last
\* has size clamp(total // workers, 5, 100), and the last one is non-empty
\* and no larger.  With fewer than 5 documents the worker count is 0 and the
\* size is the lower limit 5.
C24_ChunksPartitionCorpus ==
    SplitRan =>
        LET total == Len(chkCorpus)
            workers == Min3(chkCpu, 8, total \div 5)
            size == IF workers = 0 THEN 5 ELSE Clamp(total \div workers)
            n == Len(chkChunks)
        IN  /\ Flatten(chkChunks) = chkCorpus
            /\ \A c \in 1..(n - 1) : Len(chkChunks[c]) = size
            /\ n > 0 => (Len(chkChunks[n]) >= 1 /\ Len(chkChunks[n]) <= size)

\* a corpus has been split into more than two chunks of the largest size
\* and a smaller last one
C24_Witness ==
    /\ SplitRan
    /\ Len(chkCorpus) > 2 * 100
    /\ chkSize = 100
    /\ Len(chkChunks) = 3
    /\ Len(chkChunks[3]) < 100

(***************************************************************************)
(* Properties of substring_similarity                                      *)
(***************************************************************************)
SubstringRan == subPc \in {"slide", "done"}

SlidingRan == subPc = "done"

\* the query is a single token, neither string contains the other, the
\* query is longer than 8 and the base similarity exceeds 0.75
LeniencyApplies ==
    /\ Len(Split(subQuery)) = 1
    /\ ~InStr(subQuery, subText) /\ ~InStr(subText, subQuery)
    /\ Len(subQuery) > 8
    /\ 100 * similarity_ratio(subQuery, subText) > 75 * SimScale

\* C25: when the single-token leniency applies, substring_similarity
\* returns min(0.85, base + 0.1), and this value is never lower than the
\* base similarity.
C25_LeniencyOnlyRaises ==
    (SubstringRan /\ LeniencyApplies) =>
        LET base == similarity_ratio(subQuery, subText)
        IN  /\ 100 * subOut = 100 * Min2((85 * SimScale) \div 100, base + SimScale \div 10)
            /\ subOut >= base

\* the windows _sliding_window_similarity considers: window sizes
\* query_len - 2 .. query_len + 2 clamped to 1 .. number of text tokens
CandidateWindows(query_words, text_words) ==
    UNION {{JoinSpace(Slice(text_words, i, i + size)) :
                i \in 0..(Len(text_words) - size)} :
            size \in FirstWindowSize(Len(query_words))
                     ..(WindowSizeLimit(Len(query_words), text_words) - 1)}

\* C26: for a multi-token query _sliding_window_similarity returns the best
\* score, the maximum of _phrase_similarity(query, window) over every
\* candidate window (0 when there is none).
C26_SlidingWindowReturnsBest ==
    (SlidingRan /\ Len(Split(subQuery)) > 1) =>
        LET scores == {phrase_similarity(subQuery, window) :
                          window \in CandidateWindows(Split(subQuery), Split(subText))}
        IN  slideOut = SetMax(scores \cup {0})

GoodSuffixRan == mpc = "compared"

\* C27: for every text and pattern BoyerMooreAlgorithm.search (bad character
\* plus good suffix) returns the same offsets as the bad-character-only
\* BoyerMooreMatcher.search, overlapping occurrences included.
C27_GoodSuffixSameOffsets ==
    GoodSuffixRan => gsOut = bmOut

ExactRan == exPc = "done"

\* C28: for distinct non-empty keywords and any document text, the
\* per-keyword occurrence counts of one Aho-Corasick automaton built for all
\* keywords equal the counts of KMP and of Boyer-Moore run once per keyword.
C28_AlgorithmChoiceSameCounts ==
    ExactRan => exAc.matches = exKmp.matches /\ exAc.matches = exBm.matches

\* several keywords, one a proper substring of another, both counted
C28_Witness ==
    /\ ExactRan
    /\ \E short \in Range(exKeywords), long \in Range(exKeywords) :
          /\ short # long
          /\ InStr(short, long)
          /\ long \in DOMAIN exAc.matches
          /\ short \in DOMAIN exAc.matches
          /\ exAc.matches[short] > exAc.matches[long]

SingleThreadedRan == Done /\ returned.multiprocessing_used = "False"

\* the fuzzy results of the single-threaded path, before they are combined
SingleThreadedFuzzy ==
    perform_fuzzy_matching(corpus, Kws, DynamicThresholds(Kws),
                           perform_exact_matching(corpus, Kws, Alg))

\* C29: a keyword whose threshold is 1.0 (length <= 3) is in no fuzzy match
\* set of a single-threaded search, neither of the fuzzy phase nor of the
\* returned results.
C29_ExactOnlyKeywordNeverFuzzy ==
    SingleThreadedRan =>
        \A kw \in {q \in Range(Kws) : calculate_dynamic_threshold(q) = SimScale} :
            /\ \A i \in 1..Len(SingleThreadedFuzzy) :
                  kw \notin DOMAIN SingleThreadedFuzzy[i].fuzzy_matches
            /\ \A i \in 1..Len(Results) : kw \notin DOMAIN Results[i].fuzzy_matches

\* K1 (threshold 1.0) has no exact occurrence, is handed to the fuzzy phase
\* and is compared with a word it resembles, in a document that gets a fuzzy
\* result for another keyword
C29_Witness ==
    /\ SingleThreadedRan
    /\ calculate_dynamic_threshold(K1) = SimScale
    /\ K1 \in Range(KeywordsForFuzzy(Kws, perform_exact_matching(corpus, Kws, Alg)))
    /\ \E i \in 1..Len(SingleThreadedFuzzy) :
          \E w \in Range(Split(Lower(get_searchable_text(
                      ResultGet(corpus, SingleThreadedFuzzy[i].detail_id))))) :
              similarity_ratio(K1, w) > 0

CombineRan == cmbPc = "done"

\* C30: combine_and_rank_results leaves its inputs unchanged: after the call
\* every entry of exact_results and of fuzzy_results equals what it was
\* before, also when a document id is in both.
C30_CombineLeavesInputsUnchanged ==
    CombineRan => cmbExactAfter = cmbExact /\ cmbFuzzyAfter = cmbFuzzy

====
